---------------------------- MODULE Spec2Model ----------------------------
(***************************************************************************)
(* A model of the load generator of server-play: the latency histogram     *)
(* (pkg/stats LatencyStats), the statistics collector (pkg/stats           *)
(* Collector), the worker invocation (pkg/worker) and the rate controller  *)
(* (pkg/ratecontroller).                                                   *)
(*                                                                         *)
(* Durations.  time.Duration counts nanoseconds in an int64.  TLC's        *)
(* integers are 32 bits wide, so the model counts durations in             *)
(* microseconds: the bucket test float64(ns)/1e6 <= bucket of Record is    *)
(* us <= bucket * 1000 here, and MaxInt64 stands for the largest int64.    *)
(***************************************************************************)
EXTENDS Integers, Sequences, FiniteSets, TLC

(***************************************************************************)
(* Bounds of the model.                                                    *)
(***************************************************************************)
NumRecorders == 2      \* goroutines that call LatencyStats.Record directly
MaxRecordCalls == 2    \* Record calls made in one run of SpecHist
MaxExecutes == 2       \* ExecuteOperation calls made in one run of SpecColl
MaxTicks == 3          \* ticks the ticker of runQPSMode delivers in one run
ResultChanCap == 2     \* make(chan Result, 1000000): the capacity, scaled down
MaxWorkItems == 2      \* work items the generator of runConcurrencyMode makes in one run
MaxClock == 1          \* time.Now() reads 0..MaxClock, the collector being made at 0
MaxStartCalls == 1     \* calls of Start on a running controller in one run

(***************************************************************************)
(* Program constants.                                                      *)
(***************************************************************************)
MaxInt64 == 2147483647        \* int64(^uint64(0) >> 1), at the model's width
HighPriorityThreshold == 3    \* priority >= 3
NanosPerSecond == 1000000000
UsPerMs == 1000               \* the 1e6 ns per ms of Record, in microseconds

\* The operation kinds of processResult and ExecuteOperation.
Kinds == {"sensor-data", "sensor-rw", "batch-rw", "query"}

\* var latencyBuckets (milliseconds).
latencyBuckets == <<1, 2, 5, 10, 20, 50, 100, 200, 500, 1000, 2000, 5000>>

NumBuckets == Len(latencyBuckets) + 1

\* Latencies (microseconds) a call can take: 10 ms, just above 10 ms, 6 s.
Latencies == {10000, 10001, 6000000}

\* The (latency, priority) arguments a direct caller passes to Record.
DirectInputs == {<<10000, 3>>, <<10001, 1>>, <<10001, 3>>, <<6000000, 1>>}

\* The latency of a client call and the priority generatePriority drew for
\* it (doSensorDataUpload, doSensorReadWrite), or priority 0 (doBatchSensorRW,
\* doSensorQuery).
CallOutcomes(op) ==
    IF op \in {"sensor-data", "sensor-rw"}
    THEN {<<10000, 3>>}
    ELSE {<<10000, 0>>}

\* Every (latency, priority) a Record call of the model can have.
RecordInputs == DirectInputs \cup {<<10000, 0>>}

\* An operation kind ExecuteOperation does not know.
UnknownKind == "unknown"

\* The kinds a direct caller passes to ExecuteOperation: a known one and an
\* unknown one.
ExecutedKinds == {"sensor-data", UnknownKind}

\* The LatencyStats under test when Record is called directly.
HistOp == "sensor-data"

Recorders == 1..NumRecorders

\* The collector's consumer goroutine (go sc.processResults(ctx)) as a caller.
Consumer == 0

\* Every goroutine that can be inside Record: the direct callers and the
\* collector's consumer goroutine.
Callers == Recorders \cup {Consumer}

\* The goroutines that run ExecuteOperation.
Invocations == 1..MaxTicks

VARIABLES
    stats,      \* Collector.sensorDataStats .. queryStats: kind -> LatencyStats
    rec,        \* caller -> the frame of its Record call (pc, arguments, current)
    returned,   \* history: kind -> (latency, priority) -> the number of returned Record calls
    resultChan, \* Collector.resultChan: the buffered Results, oldest first
    traffic,    \* history: the sends tried on resultChan and the receives from it,
                \* the invocation of every buffered Result, the fate of every event,
                \* whether any remote call has succeeded
    sent,       \* Collector.sensorDataSent .. querySent: kind -> count
    ops,        \* Collector.sensorDataOps .. queryOps: kind -> count
    errors,     \* Collector.sensorDataErrors .. queryErrors: kind -> count
    consumer,   \* the goroutine of processResults: pc, the loop it is in, its result
    ctxDone,    \* whether ctx.Done() is closed
    inv,        \* invocation -> the frame of its ExecuteOperation call
    totals,     \* the frame of a GetCurrentTotals call
    snap,       \* the reporter: the clock, Collector.lastPrintTime and last<Kind>Sent/Ops,
                \* the frame of a snapshot call with what it returned or printed

    config,     \* Controller.config: Mode, QPS, Concurrency, KeyRange, ReportKey, the
                \* four ratios and totalRatio
    ctl,        \* Controller.running, the count of Controller.wg, whether done is closed
    qps,        \* the goroutine of runQPSMode: pc, operation and the draw it came
                \* from, interval, maxConcurrentRequests; the call of GetOperationType a loop
                \* is in: its pc, its local rand, the ratios it has loaded
    semaphore,  \* the number of tokens in the semaphore channel of runQPSMode
    ticker,     \* ticker.C holds a tick; the ticks delivered so far
    shed,       \* history: ticks dropped; whether a tick met an outstanding invocation;
                \* whether the tick in hand was taken after the cancellation
    conc,       \* runConcurrencyMode: its pc, workChan, the worker loops, the generator
    caller      \* the goroutines that call the controller: main's pc, the pc of a Stop call,
                \* what the last call of IsRunning returned, the calls of Start that
                \* found the controller running, the call of UpdateConfig: its pc, its
                \* cfg and the ratios it found

histVars == <<stats, rec, returned>>

counterVars == <<sent, ops, errors>>

chanVars == <<resultChan, traffic>>

collVars == <<chanVars, sent, ops, errors, consumer, ctxDone>>

ctlVars == <<config, ctl, qps, semaphore, ticker, shed, conc, caller>>

vars == <<stats, rec, returned, resultChan, traffic, sent, ops, errors, consumer, ctxDone, inv,
          totals, snap, config, ctl, qps, semaphore, ticker, shed, conc, caller>>

(***************************************************************************)
(* LatencyStats                                                            *)
(***************************************************************************)
ZeroBuckets == [i \in 0..(NumBuckets - 1) |-> 0]

NewLatencyStats ==
    [ buckets                |-> ZeroBuckets,
      totalCount             |-> 0,
      totalTime              |-> 0,
      maxLatency             |-> 0,
      minLatency             |-> MaxInt64,
      highPriorityBuckets    |-> ZeroBuckets,
      highPriorityTotalCount |-> 0,
      highPriorityTotalTime  |-> 0,
      highPriorityMaxLatency |-> 0,
      highPriorityMinLatency |-> MaxInt64 ]

\* The frame of a goroutine that is not inside Record.
IdleFrame == [pc |-> "idle", op |-> HistOp, latency |-> 0, priority |-> 0, current |-> 0]

RECURSIVE BucketScanLt(_, _)
\* A faulty variant of BucketScanLe that tests latencyMs < bucket.
BucketScanLt(latency, i) ==
    IF i > Len(latencyBuckets) THEN Len(latencyBuckets)
    ELSE IF latency < latencyBuckets[i] * UsPerMs THEN i - 1
    ELSE BucketScanLt(latency, i + 1)

RECURSIVE BucketScanLe(_, _)

\* for i, bucket := range latencyBuckets { if latencyMs <= bucket {...; break} }
\* from the i-th boundary on (1-based); the result is the 0-based bucketIndex.
BucketScanLe(latency, i) ==
    IF i > Len(latencyBuckets) THEN Len(latencyBuckets)
    ELSE IF latency <= latencyBuckets[i] * UsPerMs THEN i - 1
    ELSE BucketScanLe(latency, i + 1)

\* A faulty variant of BucketIndex that puts a latency equal to a boundary one bucket up.
BucketIndexStrict(latency) == BucketScanLt(latency, 1)

\* bucketIndex of Record.
BucketIndex(latency) == BucketScanLe(latency, 1)

\* Record is entered: the caller's frame holds its arguments.
RecordEnter(c, op, latency, priority) ==
    rec' = [rec EXCEPT ![c] = [pc |-> "AddTotalCount", op |-> op, latency |-> latency,
                               priority |-> priority, current |-> 0]]

\* A faulty variant of RecordAddTotalCount that leaves totalCount alone.
RecordSkipTotalCount(c) ==
    /\ rec[c].pc = "AddTotalCount"
    /\ rec' = [rec EXCEPT ![c].pc = "AddTotalTime"]
    /\ UNCHANGED <<stats, returned, collVars, inv, totals, snap, ctlVars>>

\* atomic.AddInt64(&ls.totalCount, 1)
RecordAddTotalCount(c) ==
    /\ rec[c].pc = "AddTotalCount"
    /\ stats' = [stats EXCEPT ![rec[c].op].totalCount = @ + 1]
    /\ rec' = [rec EXCEPT ![c].pc = "AddTotalTime"]
    /\ UNCHANGED <<returned, collVars, inv, totals, snap, ctlVars>>

\* atomic.AddInt64(&ls.totalTime, latency.Nanoseconds())
RecordAddTotalTime(c) ==
    /\ rec[c].pc = "AddTotalTime"
    /\ stats' = [stats EXCEPT ![rec[c].op].totalTime = @ + rec[c].latency]
    /\ rec' = [rec EXCEPT ![c].pc = "LoadMax"]
    /\ UNCHANGED <<returned, collVars, inv, totals, snap, ctlVars>>

\* current := atomic.LoadInt64(&ls.maxLatency); if latency <= current { break }
RecordLoadMax(c) ==
    /\ rec[c].pc = "LoadMax"
    /\ LET current == stats[rec[c].op].maxLatency IN
         rec' = [rec EXCEPT ![c].current = current,
                            ![c].pc = IF rec[c].latency <= current
                                      THEN "LoadMin" ELSE "CasMax"]
    /\ UNCHANGED <<stats, returned, collVars, inv, totals, snap, ctlVars>>

\* A faulty variant of RecordCasMax that stores without comparing.
RecordStoreMax(c) ==
    /\ rec[c].pc = "CasMax"
    /\ stats' = [stats EXCEPT ![rec[c].op].maxLatency = rec[c].latency]
    /\ rec' = [rec EXCEPT ![c].pc = "LoadMin"]
    /\ UNCHANGED <<returned, collVars, inv, totals, snap, ctlVars>>

\* if atomic.CompareAndSwapInt64(&ls.maxLatency, current, latency) { break }
RecordCasMax(c) ==
    /\ rec[c].pc = "CasMax"
    /\ IF stats[rec[c].op].maxLatency = rec[c].current
       THEN /\ stats' = [stats EXCEPT ![rec[c].op].maxLatency = rec[c].latency]
            /\ rec' = [rec EXCEPT ![c].pc = "LoadMin"]
       ELSE /\ rec' = [rec EXCEPT ![c].pc = "LoadMax"]
            /\ UNCHANGED stats
    /\ UNCHANGED <<returned, collVars, inv, totals, snap, ctlVars>>

\* current := atomic.LoadInt64(&ls.minLatency); if latency >= current { break }
RecordLoadMin(c) ==
    /\ rec[c].pc = "LoadMin"
    /\ LET current == stats[rec[c].op].minLatency IN
         rec' = [rec EXCEPT ![c].current = current,
                            ![c].pc = IF rec[c].latency >= current
                                      THEN "AddBucket" ELSE "CasMin"]
    /\ UNCHANGED <<stats, returned, collVars, inv, totals, snap, ctlVars>>

\* if atomic.CompareAndSwapInt64(&ls.minLatency, current, latency) { break }
RecordCasMin(c) ==
    /\ rec[c].pc = "CasMin"
    /\ IF stats[rec[c].op].minLatency = rec[c].current
       THEN /\ stats' = [stats EXCEPT ![rec[c].op].minLatency = rec[c].latency]
            /\ rec' = [rec EXCEPT ![c].pc = "AddBucket"]
       ELSE /\ rec' = [rec EXCEPT ![c].pc = "LoadMin"]
            /\ UNCHANGED stats
    /\ UNCHANGED <<returned, collVars, inv, totals, snap, ctlVars>>

\* A faulty variant of RecordAddBucket that returns before the high-priority part.
RecordAddBucketOnly(c) ==
    /\ rec[c].pc = "AddBucket"
    /\ stats' = [stats EXCEPT ![rec[c].op].buckets[BucketIndex(rec[c].latency)] = @ + 1]
    /\ rec' = [rec EXCEPT ![c].pc = "Return"]
    /\ UNCHANGED <<returned, collVars, inv, totals, snap, ctlVars>>

\* atomic.AddInt64(&ls.buckets[bucketIndex], 1); if priority >= 3 { ... }
RecordAddBucket(c) ==
    /\ rec[c].pc = "AddBucket"
    /\ stats' = [stats EXCEPT ![rec[c].op].buckets[BucketIndex(rec[c].latency)] = @ + 1]
    /\ rec' = [rec EXCEPT ![c].pc = IF rec[c].priority >= HighPriorityThreshold
                                    THEN "AddHighPriorityTotalCount" ELSE "Return"]
    /\ UNCHANGED <<returned, collVars, inv, totals, snap, ctlVars>>

\* atomic.AddInt64(&ls.highPriorityTotalCount, 1)
RecordAddHighPriorityTotalCount(c) ==
    /\ rec[c].pc = "AddHighPriorityTotalCount"
    /\ stats' = [stats EXCEPT ![rec[c].op].highPriorityTotalCount = @ + 1]
    /\ rec' = [rec EXCEPT ![c].pc = "AddHighPriorityTotalTime"]
    /\ UNCHANGED <<returned, collVars, inv, totals, snap, ctlVars>>

\* atomic.AddInt64(&ls.highPriorityTotalTime, latency.Nanoseconds())
RecordAddHighPriorityTotalTime(c) ==
    /\ rec[c].pc = "AddHighPriorityTotalTime"
    /\ stats' = [stats EXCEPT ![rec[c].op].highPriorityTotalTime = @ + rec[c].latency]
    /\ rec' = [rec EXCEPT ![c].pc = "LoadHighPriorityMax"]
    /\ UNCHANGED <<returned, collVars, inv, totals, snap, ctlVars>>

\* current := atomic.LoadInt64(&ls.highPriorityMaxLatency); if latency <= current { break }
RecordLoadHighPriorityMax(c) ==
    /\ rec[c].pc = "LoadHighPriorityMax"
    /\ LET current == stats[rec[c].op].highPriorityMaxLatency IN
         rec' = [rec EXCEPT ![c].current = current,
                            ![c].pc = IF rec[c].latency <= current
                                      THEN "LoadHighPriorityMin" ELSE "CasHighPriorityMax"]
    /\ UNCHANGED <<stats, returned, collVars, inv, totals, snap, ctlVars>>

\* if atomic.CompareAndSwapInt64(&ls.highPriorityMaxLatency, current, latency) { break }
RecordCasHighPriorityMax(c) ==
    /\ rec[c].pc = "CasHighPriorityMax"
    /\ IF stats[rec[c].op].highPriorityMaxLatency = rec[c].current
       THEN /\ stats' = [stats EXCEPT ![rec[c].op].highPriorityMaxLatency = rec[c].latency]
            /\ rec' = [rec EXCEPT ![c].pc = "LoadHighPriorityMin"]
       ELSE /\ rec' = [rec EXCEPT ![c].pc = "LoadHighPriorityMax"]
            /\ UNCHANGED stats
    /\ UNCHANGED <<returned, collVars, inv, totals, snap, ctlVars>>

\* current := atomic.LoadInt64(&ls.highPriorityMinLatency); if latency >= current { break }
RecordLoadHighPriorityMin(c) ==
    /\ rec[c].pc = "LoadHighPriorityMin"
    /\ LET current == stats[rec[c].op].highPriorityMinLatency IN
         rec' = [rec EXCEPT ![c].current = current,
                            ![c].pc = IF rec[c].latency >= current
                                      THEN "AddHighPriorityBucket" ELSE "CasHighPriorityMin"]
    /\ UNCHANGED <<stats, returned, collVars, inv, totals, snap, ctlVars>>

\* if atomic.CompareAndSwapInt64(&ls.highPriorityMinLatency, current, latency) { break }
RecordCasHighPriorityMin(c) ==
    /\ rec[c].pc = "CasHighPriorityMin"
    /\ IF stats[rec[c].op].highPriorityMinLatency = rec[c].current
       THEN /\ stats' = [stats EXCEPT ![rec[c].op].highPriorityMinLatency = rec[c].latency]
            /\ rec' = [rec EXCEPT ![c].pc = "AddHighPriorityBucket"]
       ELSE /\ rec' = [rec EXCEPT ![c].pc = "LoadHighPriorityMin"]
            /\ UNCHANGED stats
    /\ UNCHANGED <<returned, collVars, inv, totals, snap, ctlVars>>

\* atomic.AddInt64(&ls.highPriorityBuckets[bucketIndex], 1)
RecordAddHighPriorityBucket(c) ==
    /\ rec[c].pc = "AddHighPriorityBucket"
    /\ stats' = [stats EXCEPT
                   ![rec[c].op].highPriorityBuckets[BucketIndex(rec[c].latency)] = @ + 1]
    /\ rec' = [rec EXCEPT ![c].pc = "Return"]
    /\ UNCHANGED <<returned, collVars, inv, totals, snap, ctlVars>>

\* One atomic step of the Record call of caller c.
RecordStep(c) ==
    \/ RecordAddTotalCount(c)
    \/ RecordAddTotalTime(c)
    \/ RecordLoadMax(c)
    \/ RecordCasMax(c)
    \/ RecordLoadMin(c)
    \/ RecordCasMin(c)
    \/ RecordAddBucket(c)
    \/ RecordAddHighPriorityTotalCount(c)
    \/ RecordAddHighPriorityTotalTime(c)
    \/ RecordLoadHighPriorityMax(c)
    \/ RecordCasHighPriorityMax(c)
    \/ RecordLoadHighPriorityMin(c)
    \/ RecordCasHighPriorityMin(c)
    \/ RecordAddHighPriorityBucket(c)

\* RecordInputs in some order.
RecordInputSeq ==
    CHOOSE q \in [1..Cardinality(RecordInputs) -> RecordInputs] :
        \A in \in RecordInputs : \E i \in DOMAIN q : q[i] = in

RECURSIVE SumFrom(_, _, _)
\* The sum of f over the arguments in S among RecordInputSeq[i..].
SumFrom(f, S, i) ==
    IF i > Len(RecordInputSeq) THEN 0
    ELSE (IF RecordInputSeq[i] \in S THEN f[RecordInputSeq[i]] ELSE 0) + SumFrom(f, S, i + 1)

\* The sum of f over the set S of Record arguments.
SumOver(f, S) == SumFrom(f, S, 1)

\* The number of returned Record calls on kind op with arguments in S.
ReturnedCount(op, S) == SumOver(returned[op], S)

\* The history of returned calls gains the call of frame f.
Returned(f) ==
    [returned EXCEPT ![f.op][<<f.latency, f.priority>>] = @ + 1]

(***************************************************************************)
(* Collector                                                               *)
(***************************************************************************)
\* type Result struct
Result(operation, latency, priority, success, isSent) ==
    [Operation |-> operation, Latency |-> latency, Priority |-> priority,
     Success |-> success, IsSent |-> isSent]

NoResult == Result("", 0, 0, FALSE, FALSE)

\* The two events of an invocation; a Result with IsSent false is a Completed.
Phases == {"Sent", "Completed"}

Phase(r) == IF r.IsSent THEN "Sent" ELSE "Completed"

\* History: invocation i has tried to send r, and the channel had room or not.
\* The events are followed one by one in the runs that set traffic.trace.
Sending(i, r, room) ==
    IF traffic.trace
    THEN traffic' = [traffic EXCEPT
                       !.sends = @ + 1,
                       !.ids = IF room THEN Append(@, i) ELSE @,
                       !.fate[i][Phase(r)] = IF ~room THEN "dropped"
                                             ELSE IF @ = "owed" THEN "queuedLate"
                                             ELSE "queued"]
    ELSE traffic' = [traffic EXCEPT !.sends = @ + 1]

\* A faulty variant of Send that waits for room in the channel.
SendBlocking(i, r) ==
    /\ Len(resultChan) < ResultChanCap
    /\ resultChan' = Append(resultChan, r)
    /\ Sending(i, r, TRUE)

\* select { case sc.resultChan <- r: default: }, in the push of invocation i
Send(i, r) ==
    /\ resultChan' = IF Len(resultChan) < ResultChanCap
                     THEN Append(resultChan, r) ELSE resultChan
    /\ Sending(i, r, Len(resultChan) < ResultChanCap)

\* A faulty variant of ConsumerReceive that takes the newest Result.
ConsumerReceiveNewest ==
    /\ consumer.pc \in {"select", "drain"}
    /\ resultChan # <<>>
    /\ consumer' = [pc |-> "processResult", loop |-> consumer.pc,
                    result |-> resultChan[Len(resultChan)]]
    /\ resultChan' = SubSeq(resultChan, 1, Len(resultChan) - 1)
    /\ IF traffic.trace
       THEN traffic' = [traffic EXCEPT !.receives = @ + 1,
                                       !.ids = SubSeq(@, 1, Len(@) - 1),
                                       !.current = traffic.ids[Len(traffic.ids)]]
       ELSE traffic' = [traffic EXCEPT !.receives = @ + 1]
    /\ UNCHANGED <<histVars, counterVars, ctxDone, inv, totals, snap, ctlVars>>

\* case result := <-sc.resultChan, in the outer select or in the drain loop.
ConsumerReceive ==
    /\ consumer.pc \in {"select", "drain"}
    /\ resultChan # <<>>
    /\ consumer' = [pc |-> "processResult", loop |-> consumer.pc, result |-> Head(resultChan)]
    /\ resultChan' = Tail(resultChan)
    /\ IF traffic.trace
       THEN traffic' = [traffic EXCEPT !.receives = @ + 1,
                                       !.ids = Tail(@),
                                       !.current = Head(traffic.ids)]
       ELSE traffic' = [traffic EXCEPT !.receives = @ + 1]
    /\ UNCHANGED <<histVars, counterVars, ctxDone, inv, totals, snap, ctlVars>>

\* A faulty variant of ConsumerCtxDone that returns at once.
ConsumerCtxDoneReturn ==
    /\ consumer.pc = "select"
    /\ ctxDone
    /\ consumer' = [consumer EXCEPT !.pc = "stopped", !.loop = "drain"]
    /\ UNCHANGED <<histVars, chanVars, counterVars, ctxDone, inv, totals, snap, ctlVars>>

\* case <-ctx.Done(), in the outer select: the drain loop is entered.
ConsumerCtxDone ==
    /\ consumer.pc = "select"
    /\ ctxDone
    /\ consumer' = [consumer EXCEPT !.pc = "drain", !.loop = "drain"]
    /\ UNCHANGED <<histVars, chanVars, counterVars, ctxDone, inv, totals, snap, ctlVars>>

\* default: return, in the drain loop: nothing is buffered.
ConsumerReturn ==
    /\ consumer.pc = "drain"
    /\ resultChan = <<>>
    /\ consumer' = [consumer EXCEPT !.pc = "stopped"]
    /\ UNCHANGED <<histVars, chanVars, counterVars, ctxDone, inv, totals, snap, ctlVars>>

\* processResult, result.IsSent: switch result.Operation { atomic.AddInt64(&sc.<kind>Sent, 1) }
ProcessSent(r) ==
    /\ sent' = IF r.Operation \in Kinds
               THEN [sent EXCEPT ![r.Operation] = @ + 1] ELSE sent
    /\ consumer' = [consumer EXCEPT !.pc = consumer.loop, !.result = NoResult]
    /\ UNCHANGED <<histVars, ops, errors>>

\* A faulty variant of ProcessCompleted that records the latency of a failure too.
ProcessCompletedRecordsFailure(r) ==
    IF r.Operation \notin Kinds
    THEN /\ consumer' = [consumer EXCEPT !.pc = consumer.loop, !.result = NoResult]
         /\ UNCHANGED <<histVars, counterVars>>
    ELSE /\ IF r.Success
            THEN ops' = [ops EXCEPT ![r.Operation] = @ + 1] /\ UNCHANGED errors
            ELSE errors' = [errors EXCEPT ![r.Operation] = @ + 1] /\ UNCHANGED ops
         /\ RecordEnter(Consumer, r.Operation, r.Latency, r.Priority)
         /\ consumer' = [consumer EXCEPT !.pc = "Record", !.result = NoResult]
         /\ UNCHANGED <<stats, returned, sent>>

\* A faulty variant of ProcessCompleted that counts a failure as completed.
ProcessCompletedFailureAsOp(r) ==
    IF r.Operation \notin Kinds
    THEN /\ consumer' = [consumer EXCEPT !.pc = consumer.loop, !.result = NoResult]
         /\ UNCHANGED <<histVars, counterVars>>
    ELSE IF r.Success
    THEN /\ ops' = [ops EXCEPT ![r.Operation] = @ + 1]
         /\ RecordEnter(Consumer, r.Operation, r.Latency, r.Priority)
         /\ consumer' = [consumer EXCEPT !.pc = "Record", !.result = NoResult]
         /\ UNCHANGED <<stats, returned, sent, errors>>
    ELSE /\ ops' = [ops EXCEPT ![r.Operation] = @ + 1]
         /\ consumer' = [consumer EXCEPT !.pc = consumer.loop, !.result = NoResult]
         /\ UNCHANGED <<histVars, sent, errors>>

\* processResult, !result.IsSent: the <kind>Ops counter and Record on success,
\* the <kind>Errors counter otherwise; no case for another kind.
ProcessCompleted(r) ==
    IF r.Operation \notin Kinds
    THEN /\ consumer' = [consumer EXCEPT !.pc = consumer.loop, !.result = NoResult]
         /\ UNCHANGED <<histVars, counterVars>>
    ELSE IF r.Success
    THEN /\ ops' = [ops EXCEPT ![r.Operation] = @ + 1]
         /\ RecordEnter(Consumer, r.Operation, r.Latency, r.Priority)
         /\ consumer' = [consumer EXCEPT !.pc = "Record", !.result = NoResult]
         /\ UNCHANGED <<stats, returned, sent, errors>>
    ELSE /\ errors' = [errors EXCEPT ![r.Operation] = @ + 1]
         /\ consumer' = [consumer EXCEPT !.pc = consumer.loop, !.result = NoResult]
         /\ UNCHANGED <<histVars, sent, ops>>

\* sc.processResult(result)
ProcessResult ==
    /\ consumer.pc = "processResult"
    /\ IF consumer.result.IsSent
       THEN ProcessSent(consumer.result)
       ELSE ProcessCompleted(consumer.result)
    /\ IF traffic.trace
       THEN traffic' = [traffic EXCEPT
                          !.current = 0,
                          !.fate[traffic.current][Phase(consumer.result)] =
                              IF @ \in {"applied", "twice"} THEN "twice" ELSE "applied"]
       ELSE UNCHANGED traffic
    /\ UNCHANGED <<resultChan, ctxDone, inv, totals, snap, ctlVars>>

\* Record returns to processResult, which returns to the loop.
ConsumerRecordReturn ==
    /\ consumer.pc = "Record"
    /\ rec[Consumer].pc = "Return"
    /\ returned' = Returned(rec[Consumer])
    /\ rec' = [rec EXCEPT ![Consumer] = IdleFrame]
    /\ consumer' = [consumer EXCEPT !.pc = consumer.loop]
    /\ UNCHANGED <<stats, chanVars, counterVars, ctxDone, inv, totals, snap, ctlVars>>

\* One step of the consumer goroutine.
ConsumerStep ==
    \/ ConsumerReceive
    \/ ConsumerCtxDone
    \/ ConsumerReturn
    \/ ProcessResult
    \/ RecordStep(Consumer)
    \/ ConsumerRecordReturn

\* The events in the channel: the invocation and the phase of every Result.
Buffered == {<<traffic.ids[k], Phase(resultChan[k])>> : k \in 1..Len(traffic.ids)}

\* The context's deadline passes (context.WithTimeout in main) or cancel() runs.
\* History: the events buffered at this moment are marked, and the Completed
\* event every invocation inside its client call still owes.
CtxCancel ==
    /\ ~ctxDone
    /\ ctxDone' = TRUE
    /\ IF traffic.trace
       THEN traffic' = [traffic EXCEPT !.fate =
                          [i \in Invocations |-> [p \in Phases |->
                             IF <<i, p>> \in Buffered THEN "queuedAtCancel"
                             ELSE IF p = "Completed" /\ inv[i].pc = "Call" THEN "owed"
                             ELSE traffic.fate[i][p]]]]
       ELSE UNCHANGED traffic
    /\ UNCHANGED <<histVars, resultChan, counterVars, consumer, inv, totals, snap, ctlVars>>

(***************************************************************************)
(* Worker                                                                  *)
(***************************************************************************)
IdleInvocation ==
    [pc |-> "idle", op |-> "", latency |-> 0, priority |-> 0, err |-> FALSE, status |-> 0,
     success |-> FALSE, gated |-> FALSE]

\* Invocation i has not begun and every invocation before it has.
NextInvocation(i) ==
    /\ inv[i].pc = "idle"
    /\ \A j \in Invocations : j < i => inv[j].pc # "idle"

\* w.ExecuteOperation(operation) is entered, in a goroutine that holds a token
\* of the semaphore (gated) or in the caller's: the switch on the kind.
ExecuteOperation(i, operation, gated) ==
    /\ NextInvocation(i)
    /\ inv' = [inv EXCEPT ![i].op = operation,
                          ![i].gated = gated,
                          ![i].pc = IF operation \in Kinds
                                    THEN "PushSentEvent" ELSE "PushResult"]

\* ExecuteOperation returns, to the deferred release of the token if any: the
\* frame of do<Kind> is gone.
AfterExecute(i) ==
    [IdleInvocation EXCEPT !.pc = IF inv[i].gated THEN "Release" ELSE "done",
                           !.op = inv[i].op, !.gated = inv[i].gated]

\* w.statsCollector.PushSentEvent(kind)
PushSentEvent(i) ==
    /\ inv[i].pc = "PushSentEvent"
    /\ Send(i, Result(inv[i].op, 0, 0, TRUE, TRUE))
    /\ inv' = [inv EXCEPT ![i].pc = "Call"]
    /\ UNCHANGED <<histVars, counterVars, consumer, ctxDone, totals, snap, ctlVars>>

\* resp.StatusCode() == 200
StatusOK == 200

\* What a client call returns: a response with status 200, a response with
\* another status, or a transport error (and no response).
Responses ==
    {[err |-> FALSE, status |-> StatusOK], [err |-> FALSE, status |-> 500],
     [err |-> TRUE, status |-> 0]}

\* A faulty variant of CallReturn that takes every response for a success.
CallReturnAnyStatus(i) ==
    /\ inv[i].pc = "Call"
    /\ \E out \in CallOutcomes(inv[i].op), resp \in Responses :
         /\ inv' = [inv EXCEPT ![i].latency = out[1], ![i].priority = out[2],
                               ![i].err = resp.err, ![i].status = resp.status,
                               ![i].success = ~resp.err,
                               ![i].pc = "PushCompletedResult"]
         /\ traffic' = [traffic EXCEPT !.calls[i] = @ + 1,
                                       !.succeeded = @ \/ (traffic.trace /\ ~resp.err)]
    /\ UNCHANGED <<histVars, resultChan, counterVars, consumer, ctxDone, totals, snap, ctlVars>>

\* priority := w.generatePriority() (drawn before the call, used after it);
\* resp, err := w.client.<Call>WithResponse(...); latency := time.Since(startTime);
\* success := err == nil && resp.StatusCode() == 200
CallReturn(i) ==
    /\ inv[i].pc = "Call"
    /\ \E out \in CallOutcomes(inv[i].op), resp \in Responses :
         /\ inv' = [inv EXCEPT ![i].latency = out[1], ![i].priority = out[2],
                               ![i].err = resp.err, ![i].status = resp.status,
                               ![i].success = ~resp.err /\ resp.status = StatusOK,
                               ![i].pc = "PushCompletedResult"]
         /\ traffic' = [traffic EXCEPT
                          !.calls[i] = @ + 1,
                          !.succeeded = @ \/ (traffic.trace /\ ~resp.err
                                                            /\ resp.status = StatusOK)]
    /\ UNCHANGED <<histVars, resultChan, counterVars, consumer, ctxDone, totals, snap, ctlVars>>

\* w.statsCollector.PushCompletedResult(kind, latency, priority, success)
PushCompletedResult(i) ==
    /\ inv[i].pc = "PushCompletedResult"
    /\ Send(i, Result(inv[i].op, inv[i].latency, inv[i].priority, inv[i].success, FALSE))
    /\ inv' = [inv EXCEPT ![i] = AfterExecute(i)]
    /\ UNCHANGED <<histVars, counterVars, consumer, ctxDone, totals, snap, ctlVars>>

\* default: w.statsCollector.PushResult(operation, 0, 0, false)
PushResult(i) ==
    /\ inv[i].pc = "PushResult"
    /\ Send(i, Result(inv[i].op, 0, 0, FALSE, FALSE))
    /\ inv' = [inv EXCEPT ![i] = AfterExecute(i)]
    /\ UNCHANGED <<histVars, counterVars, consumer, ctxDone, totals, snap, ctlVars>>

\* One step of invocation i inside ExecuteOperation.
WorkerStep(i) ==
    \/ PushSentEvent(i)
    \/ CallReturn(i)
    \/ PushCompletedResult(i)
    \/ PushResult(i)

(***************************************************************************)
(* GetCurrentTotals                                                        *)
(***************************************************************************)
\* The twelve atomic loads of GetCurrentTotals in program order.
TotalsLoads ==
    << <<"sent", "sensor-data">>, <<"sent", "sensor-rw">>,
       <<"sent", "batch-rw">>, <<"sent", "query">>,
       <<"ops", "sensor-data">>, <<"ops", "sensor-rw">>,
       <<"ops", "batch-rw">>, <<"ops", "query">>,
       <<"errors", "sensor-data">>, <<"errors", "sensor-rw">>,
       <<"errors", "batch-rw">>, <<"errors", "query">> >>

IdleTotals == [pc |-> 0, totalSent |-> 0, totalOps |-> 0, totalErrors |-> 0, pending |-> 0]

\* sc.GetCurrentTotals() is called (by PrintRealtime or PrintFinalReport).
TotalsCall ==
    /\ totals.pc = 0
    /\ totals' = [IdleTotals EXCEPT !.pc = 1]
    /\ UNCHANGED <<histVars, collVars, inv, snap, ctlVars>>

\* The next atomic.LoadInt64 of GetCurrentTotals, added to its sum.
TotalsLoad ==
    /\ totals.pc \in 1..Len(TotalsLoads)
    /\ LET load == TotalsLoads[totals.pc]
           value == CASE load[1] = "sent" -> sent[load[2]]
                      [] load[1] = "ops" -> ops[load[2]]
                      [] load[1] = "errors" -> errors[load[2]]
       IN totals' = [totals EXCEPT
                       !.pc = @ + 1,
                       !.totalSent = IF load[1] = "sent" THEN @ + value ELSE @,
                       !.totalOps = IF load[1] = "ops" THEN @ + value ELSE @,
                       !.totalErrors = IF load[1] = "errors" THEN @ + value ELSE @]
    /\ UNCHANGED <<histVars, collVars, inv, snap, ctlVars>>

\* pending := totalSent - totalOps - totalErrors
TotalsPending ==
    /\ totals.pc = Len(TotalsLoads) + 1
    /\ totals' = [totals EXCEPT !.pc = @ + 1,
                                !.pending = totals.totalSent - totals.totalOps
                                              - totals.totalErrors]
    /\ UNCHANGED <<histVars, collVars, inv, snap, ctlVars>>

\* return totalSent, totalOps, totalErrors, pending
TotalsReturn ==
    /\ totals.pc = Len(TotalsLoads) + 2
    /\ totals' = IdleTotals
    /\ UNCHANGED <<histVars, collVars, inv, snap, ctlVars>>

TotalsStep ==
    \/ TotalsCall
    \/ TotalsLoad
    \/ TotalsPending
    \/ TotalsReturn

(***************************************************************************)
(* Reporter: GetStats, GetHighPriorityStats, PrintRealtime,                *)
(* PrintFinalReport.  A call takes its loads in one step.                  *)
(***************************************************************************)
\* A float64 that is a number, here an integer.
Num(x) == <<"num", x>>

\* float64(a) / float64(b): the quotient (cut to an integer), and what IEEE
\* division gives for a divisor 0.
FloatDiv(a, b) ==
    IF b # 0 THEN Num(a \div b)
    ELSE IF a = 0 THEN <<"NaN", 0>>
    ELSE IF a > 0 THEN <<"+Inf", 0>> ELSE <<"-Inf", 0>>

\* A faulty variant of GetStats without the check of totalCount.
GetStatsNoGuard(ls) ==
    [avg |-> FloatDiv(ls.totalTime, ls.totalCount * UsPerMs),
     max |-> FloatDiv(ls.maxLatency, UsPerMs),
     min |-> FloatDiv(ls.minLatency, UsPerMs),
     buckets |-> ls.buckets]

\* ls.GetStats(): avgLatency, maxLatency and minLatency in ms, the buckets.
GetStats(ls) ==
    IF ls.totalCount = 0
    THEN [avg |-> Num(0), max |-> Num(0), min |-> Num(0),
          buckets |-> [i \in 0..(NumBuckets - 1) |-> 0]]
    ELSE [avg |-> FloatDiv(ls.totalTime, ls.totalCount * UsPerMs),
          max |-> FloatDiv(ls.maxLatency, UsPerMs),
          min |-> FloatDiv(ls.minLatency, UsPerMs),
          buckets |-> ls.buckets]

\* ls.GetHighPriorityStats(): the same of the high-priority fields, and the count.
GetHighPriorityStats(ls) ==
    IF ls.highPriorityTotalCount = 0
    THEN [avg |-> Num(0), max |-> Num(0), min |-> Num(0),
          buckets |-> [i \in 0..(NumBuckets - 1) |-> 0], count |-> 0]
    ELSE [avg |-> FloatDiv(ls.highPriorityTotalTime, ls.highPriorityTotalCount * UsPerMs),
          max |-> FloatDiv(ls.highPriorityMaxLatency, UsPerMs),
          min |-> FloatDiv(ls.highPriorityMinLatency, UsPerMs),
          buckets |-> ls.highPriorityBuckets,
          count |-> ls.highPriorityTotalCount]

\* The sum of a counter over the four kinds.
SumKinds(f) == f["sensor-data"] + f["sensor-rw"] + f["batch-rw"] + f["query"]

\* The reporter after NewCollector: startTime and lastPrintTime are the
\* reading 0 of the clock, the last<Kind>Sent and last<Kind>Ops are 0.
IdleSnap ==
    [pc |-> "idle", op |-> "", out |-> <<>>, now |-> 0, lastPrintTime |-> 0,
     lastSent |-> [k \in Kinds |-> 0], lastOps |-> [k \in Kinds |-> 0]]

\* The clock goes on.
ClockTick ==
    /\ snap.now < MaxClock
    /\ snap' = [snap EXCEPT !.now = @ + 1]
    /\ UNCHANGED <<histVars, collVars, inv, totals, ctlVars>>

\* A goroutine calls GetStats() on the LatencyStats of kind op.
GetStatsCall(op) ==
    /\ snap.pc = "idle"
    /\ snap' = [snap EXCEPT !.pc = "GetStats", !.op = op, !.out = GetStats(stats[op])]
    /\ UNCHANGED <<histVars, collVars, inv, totals, ctlVars>>

\* A goroutine calls GetHighPriorityStats() on the LatencyStats of kind op.
GetHighPriorityStatsCall(op) ==
    /\ snap.pc = "idle"
    /\ snap' = [snap EXCEPT !.pc = "GetHighPriorityStats", !.op = op,
                            !.out = GetHighPriorityStats(stats[op])]
    /\ UNCHANGED <<histVars, collVars, inv, totals, ctlVars>>

\* A faulty variant of PrintRealtime that takes the counts it reports away
\* from the counters.
PrintRealtimeReset ==
    /\ snap.pc = "idle"
    /\ snap' = [snap EXCEPT !.pc = "PrintRealtime", !.lastPrintTime = snap.now,
                            !.out = [elapsed |-> snap.now - snap.lastPrintTime,
                                     totalElapsed |-> snap.now]]
    /\ sent' = [k \in Kinds |-> 0]
    /\ ops' = [k \in Kinds |-> 0]
    /\ UNCHANGED <<histVars, chanVars, errors, consumer, ctxDone, inv, totals, ctlVars>>

\* sc.PrintRealtime(): the rates since the last call and since the start,
\* the average latencies; then the last<Kind>Sent, last<Kind>Ops and
\* lastPrintTime are set.
PrintRealtime ==
    /\ snap.pc = "idle"
    /\ LET elapsed == snap.now - snap.lastPrintTime
           totalElapsed == snap.now
           totalSent == SumKinds(sent)
           totalOps == SumKinds(ops)
           totalErrors == SumKinds(errors)
       IN snap' = [snap EXCEPT
                     !.pc = "PrintRealtime",
                     !.out = [elapsed |-> elapsed,
                              totalElapsed |-> totalElapsed,
                              instantSendQPS |->
                                  FloatDiv(totalSent - SumKinds(snap.lastSent), elapsed),
                              instantDoneQPS |->
                                  FloatDiv(totalOps - SumKinds(snap.lastOps), elapsed),
                              avgSendQPS |-> FloatDiv(totalSent, totalElapsed),
                              avgDoneQPS |-> FloatDiv(totalOps, totalElapsed),
                              pending |-> totalSent - totalOps - totalErrors,
                              totalErrors |-> totalErrors,
                              avgLatency |-> [k \in Kinds |-> GetStats(stats[k]).avg],
                              highAvgLatency |->
                                  [k \in Kinds |-> GetHighPriorityStats(stats[k]).avg]],
                     !.lastSent = sent,
                     !.lastOps = ops,
                     !.lastPrintTime = snap.now]
    /\ UNCHANGED <<histVars, collVars, inv, totals, ctlVars>>

\* sc.PrintFinalReport() up to the call of GetCurrentTotals: the totals, and
\* the average rates they give when the time since the start is positive.
PrintFinalReport ==
    /\ snap.pc = "idle"
    /\ LET totalElapsed == snap.now
           totalSent == SumKinds(sent)
           totalOps == SumKinds(ops)
           totalErrors == SumKinds(errors)
       IN snap' = [snap EXCEPT
                     !.pc = "PrintFinalReport",
                     !.out = [totalElapsed |-> totalElapsed,
                              totalSent |-> totalSent,
                              totalOps |-> totalOps,
                              totalErrors |-> totalErrors,
                              pending |-> totalSent - totalOps - totalErrors,
                              avgSendQPS |-> IF totalElapsed > 0
                                             THEN FloatDiv(totalSent, totalElapsed)
                                             ELSE <<"none", 0>>,
                              avgDoneQPS |-> IF totalElapsed > 0
                                             THEN FloatDiv(totalOps, totalElapsed)
                                             ELSE <<"none", 0>>,
                              totalHighPriorityCount |-> 0,
                              highPriorityShare |-> <<"none", 0>>]]
    /\ UNCHANGED <<histVars, collVars, inv, totals, ctlVars>>

\* sc.PrintFinalReport(), the four calls of GetHighPriorityStats that follow:
\* the total of the high-priority counts and, when it is positive, its share
\* float64(totalHighPriorityCount) * 100 / float64(totalOps) of the totalOps
\* that GetCurrentTotals returned.
PrintFinalReportHighPriority ==
    /\ snap.pc = "PrintFinalReport"
    /\ LET totalHighPriorityCount ==
               SumKinds([k \in Kinds |-> GetHighPriorityStats(stats[k]).count])
       IN snap' = [snap EXCEPT
                     !.pc = "PrintDistribution",
                     !.out.totalHighPriorityCount = totalHighPriorityCount,
                     !.out.highPriorityShare =
                         IF totalHighPriorityCount > 0
                         THEN FloatDiv(totalHighPriorityCount * 100, snap.out.totalOps)
                         ELSE <<"none", 0>>]
    /\ UNCHANGED <<histVars, collVars, inv, totals, ctlVars>>

\* The snapshot call returns: its frame is gone.
SnapReturn ==
    /\ snap.pc \notin {"idle", "PrintFinalReport"}
    /\ snap' = [snap EXCEPT !.pc = "idle", !.op = "", !.out = <<>>]
    /\ UNCHANGED <<histVars, collVars, inv, totals, ctlVars>>

(***************************************************************************)
(* Config                                                                  *)
(***************************************************************************)
\* The draws rand.Float64() can return are n / RandDen for n in Draws.
RandDen == 20

Draws == {0, 19}

\* Every draw n / RandDen of [0, 1).
AllDraws == 0..(RandDen - 1)

\* The order in which GetOperationType goes through the kinds.
KindOrder == <<"sensor-data", "sensor-rw", "batch-rw", "query">>

\* The ratios of the configuration files of the model, in hundredths: sums
\* under, at and over 1, and kinds with ratio 0 in every position.
RatioChoices ==
    {<<70, 20, 5, 5>>, <<1, 0, 2, 0>>, <<0, 0, 0, 5>>, <<0, 50, 0, 50>>, <<30, 30, 30, 30>>,
     <<0, 0, 40, 0>>, <<50, 50, 0, 0>>}

\* The ratios of config.New, in hundredths: sensor-data, sensor-rw, batch-rw, query.
DefaultRatios == <<70, 20, 5, 5>>

\* The QPS values of the configurations of the model.
QPSChoices == {1, 6000}

\* The QPS of config.New.
DefaultQPS == 100

\* config.New(), with the ratios of the controller's configuration: Mode "qps",
\* QPS 100, Concurrency 10, KeyRange 1000 and no ReportKey.
\* c.totalRatio = c.SensorDataRatio + c.SensorRWRatio + c.BatchRWRatio + c.QueryRatio
TotalRatio(ratios) == ratios[1] + ratios[2] + ratios[3] + ratios[4]

\* c.calculateDerivedFields(), called by New and by LoadFromFile
calculateDerivedFields(c) == [c EXCEPT !.totalRatio = TotalRatio(c.ratios)]

DefaultConfig ==
    calculateDerivedFields(
        [Mode |-> "qps", QPS |-> DefaultQPS, Concurrency |-> 10, KeyRange |-> 1000,
         ReportKey |-> "", ratios |-> DefaultRatios, totalRatio |-> 0])

\* A faulty variant of GetOperationType that compares with <= for <.
GetOperationTypeLe(c, n) ==
    LET r0 == n * c.totalRatio
        r1 == r0 - c.ratios[1] * RandDen
        r2 == r1 - c.ratios[2] * RandDen
    IN IF r0 <= c.ratios[1] * RandDen THEN "sensor-data"
       ELSE IF r1 <= c.ratios[2] * RandDen THEN "sensor-rw"
       ELSE IF r2 <= c.ratios[3] * RandDen THEN "batch-rw"
       ELSE "query"

\* c.GetOperationType(rand) for rand = n / RandDen: rand * c.totalRatio is
\* compared with the ratios one after the other; every comparison of the
\* code is scaled by RandDen.
GetOperationType(c, n) ==
    LET r0 == n * c.totalRatio
        r1 == r0 - c.ratios[1] * RandDen
        r2 == r1 - c.ratios[2] * RandDen
    IN IF r0 < c.ratios[1] * RandDen THEN "sensor-data"
       ELSE IF r1 < c.ratios[2] * RandDen THEN "sensor-rw"
       ELSE IF r2 < c.ratios[3] * RandDen THEN "batch-rw"
       ELSE "query"


\* rc.mu can be taken: no call of Stop is waiting with it, and the process
\* has not been ended by a panic.
MuFree == caller.stop \notin {"wait", "panic"}

\* No call of GetOperationType is in progress.
IdleSel == [pc |-> 0, acc |-> 0, seen |-> <<>>]

\* rc.selectOperationType() enters c.GetOperationType(n / RandDen), with no
\* lock taken: rand = rand * c.totalRatio.
GetOperationTypeEnter(n) ==
    /\ qps.sel.pc = 0
    /\ qps' = [qps EXCEPT !.rand = n, !.operation = "",
                          !.sel = [pc |-> 1, acc |-> n * config.totalRatio, seen |-> <<>>]]
    /\ UNCHANGED <<histVars, collVars, inv, totals, snap, config, ctl, semaphore, ticker, shed, conc,
                   caller>>

\* GetOperationType loads the ratio of the next kind: if rand < ratio it
\* returns the kind, else rand -= ratio; after the third it returns "query".
GetOperationTypeLoad ==
    /\ qps.sel.pc \in 1..3
    /\ LET k == qps.sel.pc
           ratio == config.ratios[k] * RandDen
           seen == Append(qps.sel.seen, config.ratios[k])
       IN qps' = IF qps.sel.acc < ratio
                 THEN [qps EXCEPT !.operation = KindOrder[k],
                                  !.sel = [pc |-> 4, acc |-> qps.sel.acc, seen |-> seen]]
                 ELSE IF k = 3
                 THEN [qps EXCEPT !.operation = KindOrder[4],
                                  !.sel = [pc |-> 4, acc |-> qps.sel.acc - ratio, seen |-> seen]]
                 ELSE [qps EXCEPT !.sel = [pc |-> k + 1, acc |-> qps.sel.acc - ratio,
                                           seen |-> seen]]
    /\ UNCHANGED <<histVars, collVars, inv, totals, snap, config, ctl, semaphore, ticker, shed, conc,
                   caller>>

\* GetOperationType has returned and its caller has used the kind.
GetOperationTypeReturn ==
    /\ qps.sel.pc = 4
    /\ qps' = [qps EXCEPT !.rand = 0, !.operation = "", !.sel = IdleSel]
    /\ UNCHANGED <<histVars, collVars, inv, totals, snap, config, ctl, semaphore, ticker, shed, conc,
                   caller>>

\* rc.UpdateConfig(cfg) takes rc.mu; the model has one call of it in a run.
UpdateConfigLock(ratios) ==
    /\ MuFree
    /\ caller.update.pc = 0
    /\ ratios # config.ratios
    /\ caller' = [caller EXCEPT !.update = [pc |-> 1, cfg |-> ratios, old |-> config.ratios]]
    /\ UNCHANGED <<histVars, collVars, inv, totals, snap, config, ctl, qps, semaphore, ticker, shed,
                   conc>>

\* UpdateConfig stores the next of the four ratios of cfg in rc.config, and
\* returns after the fourth.
UpdateConfigStore ==
    /\ caller.update.pc \in 1..4
    /\ config' = [config EXCEPT !.ratios[caller.update.pc] = caller.update.cfg[caller.update.pc]]
    /\ caller' = [caller EXCEPT !.update.pc = @ + 1]
    /\ UNCHANGED <<histVars, collVars, inv, totals, snap, ctl, qps, semaphore, ticker, shed, conc>>

\* The Concurrency values of the valid configurations of the model.
ConcurrencyChoices == {1, 2}

\* The ids of the worker loops of runConcurrencyMode.
Workers == UNION {1..c : c \in ConcurrencyChoices}

\* A faulty variant of Validate that does not look at Concurrency.
ValidateNoConcurrency(c) ==
    IF c.Mode # "qps" /\ c.Mode # "concurrency" THEN "mode"
    ELSE IF c.Mode = "qps" /\ c.QPS <= 0 THEN "qps"
    ELSE IF c.KeyRange <= 0 THEN "key_range"
    ELSE IF c.ReportKey = "" THEN "report_key"
    ELSE "nil"

\* c.Validate(): the error it returns, named by what it is about, or "nil".
Validate(c) ==
    IF c.Mode # "qps" /\ c.Mode # "concurrency" THEN "mode"
    ELSE IF c.Mode = "qps" /\ c.QPS <= 0 THEN "qps"
    ELSE IF c.Mode = "concurrency" /\ c.Concurrency <= 0 THEN "concurrency"
    ELSE IF c.KeyRange <= 0 THEN "key_range"
    ELSE IF c.ReportKey = "" THEN "report_key"
    ELSE "nil"

\* c.LoadFromFile of a file that sets the four ratios.
PickConfigs ==
    {calculateDerivedFields([DefaultConfig EXCEPT !.ratios = r]) : r \in RatioChoices}

\* A configuration file that sets the report key and the concurrency mode.
FileConfig == [DefaultConfig EXCEPT !.Mode = "concurrency", !.ReportKey = "key"]

\* The configurations main loads in the model: valid ones in the concurrency
\* mode, and ones with an unknown mode, a QPS or a Concurrency that is not
\* positive, a KeyRange that is not positive, no ReportKey.
MainConfigs ==
    {[FileConfig EXCEPT !.Concurrency = c] : c \in ConcurrencyChoices}
    \cup {[FileConfig EXCEPT !.Mode = "burst"],
          [FileConfig EXCEPT !.Mode = "qps", !.QPS = 0],
          [FileConfig EXCEPT !.Mode = "qps", !.QPS = -1],
          [FileConfig EXCEPT !.Concurrency = 0],
          [FileConfig EXCEPT !.Concurrency = -1],
          [FileConfig EXCEPT !.KeyRange = 0],
          [FileConfig EXCEPT !.ReportKey = ""]}

(***************************************************************************)
(* Controller: the fixed-rate mode                                         *)
(***************************************************************************)
HardLimit == 10000

\* A faulty variant of MaxConcurrentRequests that allows three requests per QPS.
MaxConcurrentRequestsTriple(q) ==
    IF q * 3 > HardLimit THEN HardLimit ELSE q * 3

\* maxConcurrentRequests := rc.config.QPS * 2, at most 10000
MaxConcurrentRequests(q) ==
    IF q * 2 > HardLimit THEN HardLimit ELSE q * 2

\* The invocations launched by runQPSMode that have not released their token.
Outstanding == {i \in Invocations : inv[i].gated /\ inv[i].pc \notin {"idle", "done"}}

\* The state of runConcurrencyMode before it is started.
IdleConc ==
    [pc |-> "none", gen |-> "none", operation |-> "", workChan |-> <<>>, closed |-> FALSE,
     workers |-> [w \in Workers |-> [pc |-> "none", cur |-> 0]], made |-> 0, loops |-> 0]

\* A faulty variant of Launch that starts runQPSMode for every mode.
LaunchQPS ==
    /\ ctl' = [ctl EXCEPT !.running = TRUE, !.wg = @ + 1]
    /\ qps' = [qps EXCEPT !.pc = "entry"]
    /\ UNCHANGED conc

\* The body of rc.Start(ctx) when running is false: running is set and the
\* goroutine of the mode is started (runQPSMode for every mode but "concurrency").
Launch ==
    /\ ctl' = [ctl EXCEPT !.running = TRUE, !.wg = @ + 1]
    /\ IF config.Mode = "concurrency"
       THEN /\ conc' = [conc EXCEPT !.pc = "entry"]
            /\ UNCHANGED qps
       ELSE /\ qps' = [qps EXCEPT !.pc = "entry"]
            /\ UNCHANGED conc

\* rc.Start(ctx), called with rc.mu free (a Stop that waits holds it).  A call
\* that finds running set returns at once and changes nothing.
Start ==
    /\ MuFree
    /\ ~ctl.running
    /\ Launch
    /\ UNCHANGED <<caller, histVars, collVars, inv, totals, snap, config, semaphore, ticker, shed>>

\* A faulty variant of StartRunning that starts the goroutine of the mode again.
StartRunningLaunch ==
    /\ MuFree
    /\ ctl.running
    /\ caller.again < MaxStartCalls
    /\ Launch
    /\ caller' = [caller EXCEPT !.again = @ + 1]
    /\ UNCHANGED <<histVars, collVars, inv, totals, snap, config, semaphore, ticker, shed>>

\* rc.Start(ctx) on a controller whose running is set: if rc.running { return }.
\* caller.again counts these calls.
StartRunning ==
    /\ MuFree
    /\ ctl.running
    /\ caller.again < MaxStartCalls
    /\ caller' = [caller EXCEPT !.again = @ + 1]
    /\ UNCHANGED <<histVars, collVars, inv, totals, snap, config, ctl, qps, conc, semaphore, ticker,
                   shed>>

\* interval := time.Duration(1000000000 / rc.config.QPS), in nanoseconds:
\* the quotient of two ints.
Interval(q) == NanosPerSecond \div q

\* runQPSMode up to its loop: the QPS check, the ticker and the semaphore.
\* time.NewTicker panics when the interval is not positive, and the deferred
\* rc.wg.Done() runs.
QPSEntry ==
    /\ qps.pc = "entry"
    /\ IF config.QPS <= 0
       THEN /\ qps' = [qps EXCEPT !.pc = "exit"]
            /\ ctl' = [ctl EXCEPT !.wg = @ - 1]
       ELSE IF Interval(config.QPS) <= 0
       THEN /\ qps' = [qps EXCEPT !.pc = "panic", !.interval = Interval(config.QPS)]
            /\ ctl' = [ctl EXCEPT !.wg = @ - 1]
       ELSE /\ qps' = [qps EXCEPT !.pc = "select", !.interval = Interval(config.QPS),
                                  !.maxConcurrentRequests = MaxConcurrentRequests(config.QPS)]
            /\ UNCHANGED ctl
    /\ UNCHANGED <<conc, caller, histVars, collVars, inv, totals, snap, config, semaphore, ticker, shed>>

\* The runtime's timer sends a tick on ticker.C, a channel of capacity 1
\* (a tick that finds one buffered is discarded by the runtime).
TimerFire ==
    /\ qps.pc \in {"select", "acquire"}
    /\ ticker.n < MaxTicks
    /\ ~ticker.ready
    /\ ticker' = [ready |-> TRUE, n |-> ticker.n + 1]
    /\ UNCHANGED <<conc, caller, histVars, collVars, inv, totals, snap, config, ctl, qps, semaphore, shed>>

\* case <-ctx.Done(): return (defer ticker.Stop(), defer rc.wg.Done())
QPSCtxDone ==
    /\ qps.pc = "select"
    /\ ctxDone
    /\ qps' = [qps EXCEPT !.pc = "exit"]
    /\ ctl' = [ctl EXCEPT !.wg = @ - 1]
    /\ UNCHANGED <<conc, caller, histVars, collVars, inv, totals, snap, config, semaphore, ticker, shed>>

\* case <-rc.done: return (defer ticker.Stop(), defer rc.wg.Done())
QPSDone ==
    /\ qps.pc = "select"
    /\ ctl.done
    /\ qps' = [qps EXCEPT !.pc = "exit"]
    /\ ctl' = [ctl EXCEPT !.wg = @ - 1]
    /\ UNCHANGED <<conc, caller, histVars, collVars, inv, totals, snap, config, semaphore, ticker, shed>>

\* case <-ticker.C: operation := rc.selectOperationType()
QPSTick ==
    /\ qps.pc = "select"
    /\ ticker.ready
    /\ ticker' = [ticker EXCEPT !.ready = FALSE]
    /\ \E n \in Draws :
         qps' = [qps EXCEPT !.pc = "acquire", !.rand = n,
                            !.operation = GetOperationType(config, n)]
    /\ shed' = [shed EXCEPT !.late = ctxDone]
    /\ UNCHANGED <<conc, caller, histVars, collVars, inv, totals, snap, config, ctl, semaphore>>

\* A faulty variant of QPSAcquire that starts the goroutine whatever the semaphore holds.
QPSAcquireUnbounded ==
    /\ qps.pc = "acquire"
    /\ semaphore' = semaphore + 1
    /\ \E i \in Invocations : ExecuteOperation(i, qps.operation, TRUE)
    /\ shed' = [shed EXCEPT !.overlap = @ \/ Outstanding # {}, !.late = FALSE]
    /\ qps' = [qps EXCEPT !.pc = "select", !.operation = "", !.rand = 0]
    /\ UNCHANGED <<conc, caller, histVars, collVars, totals, snap, config, ctl, ticker>>

\* select { case semaphore <- struct{}{}: go func() {...}()  default: }
QPSAcquire ==
    /\ qps.pc = "acquire"
    /\ IF semaphore < qps.maxConcurrentRequests
       THEN /\ semaphore' = semaphore + 1
            /\ \E i \in Invocations : ExecuteOperation(i, qps.operation, TRUE)
            /\ shed' = [shed EXCEPT !.overlap = @ \/ Outstanding # {}, !.late = FALSE]
       ELSE /\ shed' = [shed EXCEPT !.dropped = @ + 1, !.overlap = @ \/ Outstanding # {},
                                    !.late = FALSE]
            /\ UNCHANGED <<semaphore, inv>>
    /\ qps' = [qps EXCEPT !.pc = "select", !.operation = "", !.rand = 0]
    /\ UNCHANGED <<conc, caller, histVars, collVars, totals, snap, config, ctl, ticker>>

\* A faulty variant of Release that ends the goroutine with its token in the semaphore.
ReleaseNothing(i) ==
    /\ inv[i].pc = "Release"
    /\ inv' = [inv EXCEPT ![i] = [IdleInvocation EXCEPT !.pc = "done", !.gated = TRUE]]
    /\ UNCHANGED <<conc, caller, histVars, collVars, totals, snap, config, ctl, qps, semaphore, ticker, shed>>

\* A faulty variant of Release that takes every token out of the semaphore.
ReleaseAll(i) ==
    /\ inv[i].pc = "Release"
    /\ semaphore' = 0
    /\ inv' = [inv EXCEPT ![i] = [IdleInvocation EXCEPT !.pc = "done", !.gated = TRUE]]
    /\ UNCHANGED <<conc, caller, histVars, collVars, totals, snap, config, ctl, qps, ticker, shed>>

\* defer func() { <-semaphore }(): the goroutine of invocation i ends.
Release(i) ==
    /\ inv[i].pc = "Release"
    /\ semaphore' = semaphore - 1
    /\ inv' = [inv EXCEPT ![i] = [IdleInvocation EXCEPT !.pc = "done", !.gated = TRUE]]
    /\ UNCHANGED <<conc, caller, histVars, collVars, totals, snap, config, ctl, qps, ticker, shed>>

\* rc.selectOperationType(): rc.config.GetOperationType(rand.Float64()), for
\* the draw n / RandDen, as the loops of both modes call it.
selectOperationType(n) ==
    /\ qps' = [qps EXCEPT !.operation = GetOperationType(config, n), !.rand = n]
    /\ UNCHANGED <<histVars, collVars, inv, totals, snap, config, ctl, semaphore, ticker, shed, conc,
                   caller>>

\* rc.UpdateConfig(cfg), called with rc.mu free: the four ratios of cfg are
\* copied into rc.config, and nothing else is written.
UpdateConfig(ratios) ==
    /\ MuFree
    /\ config' = [config EXCEPT !.ratios = ratios]
    /\ UNCHANGED <<histVars, collVars, inv, totals, snap, ctl, qps, semaphore, ticker, shed, conc,
                   caller>>

(***************************************************************************)
(* Controller: the fixed-concurrency mode                                  *)
(***************************************************************************)
\* The invocations made by worker loops that have not returned.
Running == {i \in Invocations : ~inv[i].gated /\ inv[i].pc \notin {"idle", "done"}}

\* Worker loop w is at its select: it is started, has not returned, and the
\* ExecuteOperation call it made last, if any, has returned.
AtSelect(w) ==
    /\ conc.workers[w].pc = "select"
    /\ conc.workers[w].cur # 0 => inv[conc.workers[w].cur].pc = "done"

\* runConcurrencyMode up to workerWg.Wait(): the Concurrency check, workChan,
\* the worker loops 1..Concurrency, the goroutine that generates the work.
\* When runConcurrencyMode is entered again, the worker loops it started
\* before have returned, so ctx is cancelled, and the generator it started
\* before can only return or fill the channel nobody reads any more: the
\* frames are used again.
ConcEntry ==
    /\ conc.pc = "entry"
    /\ IF config.Concurrency <= 0
       THEN /\ conc' = [conc EXCEPT !.pc = "exit"]
            /\ ctl' = [ctl EXCEPT !.wg = @ - 1]
       ELSE /\ conc' = [conc EXCEPT
                          !.pc = "wait", !.gen = "select", !.operation = "",
                          !.workChan = <<>>, !.closed = FALSE,
                          !.workers = [w \in Workers |->
                                         IF w <= config.Concurrency
                                         THEN [pc |-> "select", cur |-> 0]
                                         ELSE [pc |-> "none", cur |-> 0]],
                          !.loops = @ + config.Concurrency]
            /\ UNCHANGED ctl
    /\ UNCHANGED <<caller, histVars, collVars, inv, totals, snap, config, qps, semaphore, ticker, shed>>

\* worker loop: case <-ctx.Done(): return (defer workerWg.Done())
ConcWorkerCtxDone(w) ==
    /\ AtSelect(w)
    /\ ctxDone
    /\ conc' = [conc EXCEPT !.workers[w] = [pc |-> "exit", cur |-> 0]]
    /\ UNCHANGED <<caller, histVars, collVars, inv, totals, snap, config, ctl, qps, semaphore, ticker,
                   shed>>

\* What a receive from workChan yields: the oldest item, or the zero value
\* once the channel is closed and empty.
Received == IF conc.workChan # <<>> THEN Head(conc.workChan) ELSE ""

\* A faulty variant of ConcWorkerReceive that does not wait for the call it
\* made last: each item is executed in a goroutine of its own.
ConcWorkerReceiveSpawn(w) ==
    /\ conc.workers[w].pc = "select"
    /\ conc.workChan # <<>> \/ conc.closed
    /\ \E i \in Invocations :
         /\ ExecuteOperation(i, Received, FALSE)
         /\ conc' = [conc EXCEPT !.workChan = IF @ # <<>> THEN Tail(@) ELSE @,
                                 !.workers[w].cur = i]
    /\ UNCHANGED <<caller, histVars, collVars, totals, snap, config, ctl, qps, semaphore, ticker, shed>>

\* worker loop: case operation := <-workChan: w.ExecuteOperation(operation)
ConcWorkerReceive(w) ==
    /\ AtSelect(w)
    /\ conc.workChan # <<>> \/ conc.closed
    /\ \E i \in Invocations :
         /\ ExecuteOperation(i, Received, FALSE)
         /\ conc' = [conc EXCEPT !.workChan = IF @ # <<>> THEN Tail(@) ELSE @,
                                 !.workers[w].cur = i]
    /\ UNCHANGED <<caller, histVars, collVars, totals, snap, config, ctl, qps, semaphore, ticker, shed>>

\* generator: case <-ctx.Done(): close(workChan); return
GenCtxDone ==
    /\ conc.gen = "select"
    /\ ctxDone
    /\ conc' = [conc EXCEPT !.gen = "exit", !.closed = TRUE]
    /\ UNCHANGED <<caller, histVars, collVars, inv, totals, snap, config, ctl, qps, semaphore, ticker,
                   shed>>

\* generator: case <-rc.done: close(workChan); return
GenDone ==
    /\ conc.gen = "select"
    /\ ctl.done
    /\ conc' = [conc EXCEPT !.gen = "exit", !.closed = TRUE]
    /\ UNCHANGED <<caller, histVars, collVars, inv, totals, snap, config, ctl, qps, semaphore, ticker,
                   shed>>

\* generator: default: operation := rc.selectOperationType(), taken when
\* neither ctx.Done() nor rc.done is ready.
GenDefault ==
    /\ conc.gen = "select"
    /\ ~ctxDone /\ ~ctl.done
    /\ conc.made < MaxWorkItems
    /\ \E n \in Draws :
         conc' = [conc EXCEPT !.gen = "send",
                              !.operation = GetOperationType(config, n)]
    /\ UNCHANGED <<caller, histVars, collVars, inv, totals, snap, config, ctl, qps, semaphore, ticker,
                   shed>>

\* generator: case workChan <- operation, when workChan (of capacity
\* Concurrency*2) has room
GenSend ==
    /\ conc.gen = "send"
    /\ Len(conc.workChan) < config.Concurrency * 2
    /\ conc' = [conc EXCEPT !.gen = "select", !.operation = "",
                            !.workChan = Append(@, conc.operation), !.made = @ + 1]
    /\ UNCHANGED <<caller, histVars, collVars, inv, totals, snap, config, ctl, qps, semaphore, ticker,
                   shed>>

\* generator: case <-ctx.Done(): return and case <-rc.done: return of the
\* inner select: workChan is left open.
GenAbandon ==
    /\ conc.gen = "send"
    /\ ctxDone \/ ctl.done
    /\ conc' = [conc EXCEPT !.gen = "exit", !.operation = ""]
    /\ UNCHANGED <<caller, histVars, collVars, inv, totals, snap, config, ctl, qps, semaphore, ticker,
                   shed>>

\* workerWg.Wait() returns once every worker loop has returned; then
\* runConcurrencyMode returns (defer rc.wg.Done()).
ConcReturn ==
    /\ conc.pc = "wait"
    /\ \A w \in Workers : conc.workers[w].pc \in {"none", "exit"}
    /\ conc' = [conc EXCEPT !.pc = "exit"]
    /\ ctl' = [ctl EXCEPT !.wg = @ - 1]
    /\ UNCHANGED <<caller, histVars, collVars, inv, totals, snap, config, qps, semaphore, ticker, shed>>

\* One step of the goroutines of runConcurrencyMode when Stop is never called.
ConcStep ==
    \/ ConcEntry
    \/ \E w \in Workers : ConcWorkerCtxDone(w) \/ ConcWorkerReceive(w)
    \/ GenCtxDone
    \/ GenDefault
    \/ GenSend
    \/ GenAbandon
    \/ ConcReturn

(***************************************************************************)
(* Controller: Stop, and main                                              *)
(***************************************************************************)
\* rc.Stop() up to rc.wg.Wait(), called when no call of Stop is in progress:
\* a call that finds running false returns at once; one that finds it set
\* clears it and closes rc.done, which panics (close of closed channel) when
\* an earlier call has closed it, and otherwise waits, holding rc.mu.
StopCall ==
    /\ caller.stop \in {"idle", "noop", "returned"}
    /\ IF ~ctl.running
       THEN /\ caller' = [caller EXCEPT !.stop = "noop"]
            /\ UNCHANGED ctl
       ELSE IF ctl.done
       THEN /\ caller' = [caller EXCEPT !.stop = "panic"]
            /\ ctl' = [ctl EXCEPT !.running = FALSE]
       ELSE /\ caller' = [caller EXCEPT !.stop = "wait"]
            /\ ctl' = [ctl EXCEPT !.running = FALSE, !.done = TRUE]
    /\ UNCHANGED <<conc, histVars, collVars, inv, totals, snap, config, qps, semaphore, ticker, shed>>

\* rc.wg.Wait() returns, and Stop does (defer rc.mu.Unlock()).
StopReturn ==
    /\ caller.stop = "wait"
    /\ ctl.wg = 0
    /\ caller' = [caller EXCEPT !.stop = "returned"]
    /\ UNCHANGED <<conc, histVars, collVars, inv, totals, snap, config, ctl, qps, semaphore, ticker,
                   shed>>

\* rc.IsRunning(): rc.mu.RLock() is granted when no goroutine holds rc.mu
\* for writing, and the call returns rc.running.
IsRunning ==
    /\ MuFree
    /\ caller' = [caller EXCEPT !.isRunning = IF ctl.running THEN "true" ELSE "false"]
    /\ UNCHANGED <<conc, histVars, collVars, inv, totals, snap, config, ctl, qps, semaphore, ticker,
                   shed>>

\* main: if err := cfg.Validate(); err != nil { log.Fatalf(...) }
MainValidate ==
    /\ caller.main = "Validate"
    /\ caller' = [caller EXCEPT !.main = IF Validate(config) = "nil" THEN "Start" ELSE "fatal"]
    /\ UNCHANGED <<conc, histVars, collVars, inv, totals, snap, config, ctl, qps, semaphore, ticker,
                   shed>>

\* main: controller.Start(ctx), on the controller it has just made; then
\* main waits for ctx.Done().
MainStart ==
    /\ caller.main = "Start"
    /\ Launch
    /\ caller' = [caller EXCEPT !.main = "Wait"]
    /\ UNCHANGED <<histVars, collVars, inv, totals, snap, config, semaphore, ticker, shed>>

(***************************************************************************)
(* Specifications                                                          *)
(***************************************************************************)
\* The state NewCollector and ratecontroller.New leave, with processResults
\* started and ctx live, for a configuration in configs; trace says whether
\* the history follows the events one by one, main where main is ("none":
\* the controller is driven by calls of Start and Stop).
InitWith(configs, trace, main) ==
    /\ stats = [op \in Kinds |-> NewLatencyStats]
    /\ rec = [c \in Callers |-> IdleFrame]
    /\ returned = [op \in Kinds |-> [in \in RecordInputs |-> 0]]
    /\ resultChan = <<>>
    /\ traffic = [sends |-> 0, receives |-> 0, trace |-> trace, ids |-> <<>>, current |-> 0,
                  fate |-> [i \in Invocations |-> [p \in Phases |-> "none"]],
                  calls |-> [i \in Invocations |-> 0], succeeded |-> FALSE]
    /\ sent = [op \in Kinds |-> 0]
    /\ ops = [op \in Kinds |-> 0]
    /\ errors = [op \in Kinds |-> 0]
    /\ consumer = [pc |-> "select", loop |-> "select", result |-> NoResult]
    /\ ctxDone = FALSE
    /\ inv = [i \in Invocations |-> IdleInvocation]
    /\ totals = IdleTotals
    /\ snap = IdleSnap
    /\ config \in configs
    /\ ctl = [running |-> FALSE, wg |-> 0, done |-> FALSE]
    /\ qps = [pc |-> "none", operation |-> "", rand |-> 0, maxConcurrentRequests |-> 0,
              interval |-> 0,
              sel |-> IdleSel]
    /\ semaphore = 0
    /\ ticker = [ready |-> FALSE, n |-> 0]
    /\ shed = [dropped |-> 0, overlap |-> FALSE, late |-> FALSE]
    /\ conc = IdleConc
    /\ caller = [main |-> main, stop |-> "idle", isRunning |-> "none", again |-> 0,
                 update |-> [pc |-> 0, cfg |-> config.ratios, old |-> config.ratios]]

Init == InitWith({DefaultConfig}, TRUE, "none")

QPSInit == InitWith({[DefaultConfig EXCEPT !.QPS = q] : q \in QPSChoices}, FALSE, "none")

\* The number of ExecuteOperation calls entered so far.
Executes == Cardinality({i \in Invocations : inv[i].pc # "idle"})

\* A goroutine calls w.ExecuteOperation(operation).
Execute(i) ==
    /\ Executes < MaxExecutes
    /\ \E operation \in ExecutedKinds : ExecuteOperation(i, operation, FALSE)
    /\ UNCHANGED <<histVars, collVars, totals, snap, ctlVars>>

\* SpecColl: callers of ExecuteOperation push to a collector whose consumer
\* goroutine runs until the context is cancelled and the channel drained.
CollNext ==
    \/ \E i \in Invocations : Execute(i) \/ WorkerStep(i)
    \/ ConsumerStep
    \/ CtxCancel

SpecColl == Init /\ [][CollNext]_vars

\* SpecTotals: SpecColl with a goroutine inside GetCurrentTotals.
TotalsNext ==
    \/ CollNext
    \/ TotalsStep

SpecTotals == Init /\ [][TotalsNext]_vars

\* SpecQPS: Start in the fixed-rate mode.  The consumer goroutine takes no
\* step: by Send no invocation ever waits for it.
QPSNext ==
    \/ Start
    \/ QPSEntry
    \/ TimerFire
    \/ QPSTick
    \/ QPSAcquire
    \/ QPSCtxDone
    \/ CtxCancel
    \/ \E i \in Invocations :
          \/ PushSentEvent(i)
          \/ CallReturn(i)
          \/ PushCompletedResult(i)
          \/ Release(i)

SpecQPS == QPSInit /\ [][QPSNext]_vars

\* SpecConc: main with a configuration of MainConfigs: Validate, then Start
\* in the fixed-concurrency mode.  The consumer goroutine takes no step.
ConcInit == InitWith(MainConfigs, FALSE, "Validate")

ConcNext ==
    \/ MainValidate
    \/ MainStart
    \/ ConcStep
    \/ CtxCancel
    \/ \E i \in Invocations : WorkerStep(i)

SpecConc == ConcInit /\ [][ConcNext]_vars

\* SpecStop: a controller in the fixed-concurrency mode that is driven by
\* calls of Start and by one call of Stop.
StopInit ==
    InitWith({[FileConfig EXCEPT !.Concurrency = c] : c \in ConcurrencyChoices}, FALSE, "none")

\* One step of the controller's goroutines and of the invocations they make.
StopProgress ==
    \/ ConcStep
    \/ GenDone
    \/ StopReturn
    \/ \E i \in Invocations : WorkerStep(i)

StopNext ==
    \/ Start
    \/ StopCall
    \/ IsRunning
    \/ StopProgress
    \/ CtxCancel

SpecStop == StopInit /\ [][StopNext]_vars

\* SpecMode: a controller of either mode, or of a mode string that is neither,
\* driven by calls of Start and by one call of Stop.
ModeChoices == {"qps", "concurrency", "burst"}

ModeInit ==
    InitWith({[DefaultConfig EXCEPT !.Mode = m, !.QPS = 1, !.Concurrency = 1] : m \in ModeChoices},
             FALSE, "none")

ModeNext ==
    \/ Start
    \/ StartRunning
    \/ StopCall
    \/ StopReturn
    \/ QPSEntry
    \/ TimerFire
    \/ QPSTick
    \/ QPSAcquire
    \/ QPSCtxDone
    \/ QPSDone
    \/ ConcStep
    \/ GenDone
    \/ CtxCancel
    \/ \E i \in Invocations : WorkerStep(i) \/ Release(i)

SpecMode == ModeInit /\ [][ModeNext]_vars

\* SpecTick: main validates a configuration of the fixed-rate mode, with a
\* QPS that is small or above the nanoseconds of a second, and starts it.
TickQPSChoices == {1, NanosPerSecond + 1}

TickInit ==
    InitWith({[DefaultConfig EXCEPT !.QPS = q, !.ReportKey = "key"] : q \in TickQPSChoices},
             FALSE, "Validate")

TickNext ==
    \/ MainValidate
    \/ MainStart
    \/ QPSEntry
    \/ TimerFire
    \/ QPSTick
    \/ QPSAcquire
    \/ QPSCtxDone
    \/ CtxCancel
    \/ \E i \in Invocations :
          \/ PushSentEvent(i)
          \/ CallReturn(i)
          \/ PushCompletedResult(i)
          \/ Release(i)

SpecTick == TickInit /\ [][TickNext]_vars

\* SpecPick: selectOperationType on a configuration loaded from a file.
PickInit == InitWith(PickConfigs, FALSE, "none")

PickNext == \E n \in AllDraws : selectOperationType(n)

SpecPick == PickInit /\ [][PickNext]_vars

\* SpecRatio: SpecPick with calls of UpdateConfig.
RatioNext ==
    \/ PickNext
    \/ \E ratios \in RatioChoices : UpdateConfig(ratios)

SpecRatio == PickInit /\ [][RatioNext]_vars

\* SpecRace: a loop inside GetOperationType and a goroutine inside
\* UpdateConfig, each taking one load or store at a time.
RaceNext ==
    \/ \E n \in AllDraws : GetOperationTypeEnter(n)
    \/ GetOperationTypeLoad
    \/ GetOperationTypeReturn
    \/ \E ratios \in RatioChoices : UpdateConfigLock(ratios)
    \/ UpdateConfigStore

SpecRace == PickInit /\ [][RaceNext]_vars

\* SpecSnap: SpecColl with a reporter goroutine and a clock.
SnapInit == InitWith({DefaultConfig}, FALSE, "none")

SnapNext ==
    \/ CollNext
    \/ ClockTick
    \/ \E op \in ExecutedKinds \cap Kinds : GetStatsCall(op) \/ GetHighPriorityStatsCall(op)
    \/ PrintRealtime
    \/ PrintFinalReport
    \/ PrintFinalReportHighPriority
    \/ SnapReturn

SpecSnap == SnapInit /\ [][SnapNext]_vars

(***************************************************************************)
(* SpecHist: NumRecorders goroutines call Record on one LatencyStats.      *)
(***************************************************************************)
\* The number of Record calls entered so far.
RecordCalls ==
    ReturnedCount(HistOp, RecordInputs) + Cardinality({c \in Recorders : rec[c].pc # "idle"})

\* A goroutine calls ls.Record(latency, priority).  Idle goroutines are alike:
\* the one with the least id makes the call.
RecorderCall(c) ==
    /\ rec[c].pc = "idle"
    /\ \A d \in Recorders : d < c => rec[d].pc # "idle"
    /\ RecordCalls < MaxRecordCalls
    /\ \E in \in DirectInputs : RecordEnter(c, HistOp, in[1], in[2])
    /\ UNCHANGED <<stats, returned, collVars, inv, totals, snap, ctlVars>>

\* The Record call of a goroutine returns.
RecorderReturn(c) ==
    /\ rec[c].pc = "Return"
    /\ returned' = Returned(rec[c])
    /\ rec' = [rec EXCEPT ![c] = IdleFrame]
    /\ UNCHANGED <<stats, collVars, inv, totals, snap, ctlVars>>

HistNext ==
    \E c \in Recorders :
        \/ RecorderCall(c)
        \/ RecordStep(c)
        \/ RecorderReturn(c)

SpecHist == Init /\ [][HistNext]_vars

\* SpecGetStats: SpecHist with a goroutine that calls GetStats and
\* GetHighPriorityStats on the LatencyStats the others record in.
GetStatsNext ==
    \/ HistNext
    \/ GetStatsCall(HistOp)
    \/ GetHighPriorityStatsCall(HistOp)
    \/ SnapReturn

SpecGetStats == Init /\ [][GetStatsNext]_vars

(***************************************************************************)
(* Properties of the Collector, checked under SpecColl and SpecTotals.     *)
(***************************************************************************)
PushPcs == {"PushSentEvent", "PushCompletedResult", "PushResult"}

\* The Result the push of invocation i hands to the channel.
Pushed(i) ==
    CASE inv[i].pc = "PushSentEvent" -> Result(inv[i].op, 0, 0, TRUE, TRUE)
      [] inv[i].pc = "PushCompletedResult" ->
            Result(inv[i].op, inv[i].latency, inv[i].priority, inv[i].success, FALSE)
      [] inv[i].pc = "PushResult" -> Result(inv[i].op, 0, 0, FALSE, FALSE)

\* Invocation i is inside a push and its push can return now.
PushReturns(i) ==
    CASE inv[i].pc = "PushSentEvent" -> ENABLED PushSentEvent(i)
      [] inv[i].pc = "PushCompletedResult" -> ENABLED PushCompletedResult(i)
      [] inv[i].pc = "PushResult" -> ENABLED PushResult(i)
      [] OTHER -> TRUE

\* The step is the push of invocation i.
PushStep(i) == inv[i].pc \in PushPcs /\ inv'[i].pc # inv[i].pc

\* C1: a push never waits for the consumer: it can return in every state; with
\* room in the channel its Result is appended, with the channel full the
\* Result is discarded and the channel, the counters and the histograms stay
\* as they are; N pushes with the consumer idle leave min(N, capacity) queued.
C1_PushNeverBlocks ==
    /\ [](\A i \in Invocations : PushReturns(i))
    /\ [](traffic.receives = 0 =>
             Len(resultChan) = IF traffic.sends < ResultChanCap
                               THEN traffic.sends ELSE ResultChanCap)
    /\ [][\A i \in Invocations :
             PushStep(i) =>
                IF Len(resultChan) < ResultChanCap
                THEN resultChan' = Append(resultChan, Pushed(i))
                ELSE /\ resultChan' = resultChan
                     /\ UNCHANGED <<sent, ops, errors, stats>>]_vars

\* More pushes than the capacity were made before the consumer received any:
\* the channel is full and one Result was discarded.
C1_Witness ==
    /\ traffic.receives = 0
    /\ traffic.sends = ResultChanCap + 1
    /\ Len(resultChan) = ResultChanCap

\* C2: for every kind, in every state, sent >= completed + errors, also when
\* pushes were dropped.
C2_SentCoversOutcomes ==
    \A op \in Kinds : sent[op] >= ops[op] + errors[op]

\* GetCurrentTotals has computed pending and not yet returned.
TotalsComputed == totals.pc = Len(TotalsLoads) + 2

\* C3: the pending value GetCurrentTotals returns is never negative.
C3_PendingNonNegative ==
    TotalsComputed => totals.pending >= 0

\* The consumer has applied the event of invocation i in phase p.
Applied(i, p) == traffic.fate[i][p] \in {"applied", "twice"}

\* The event of invocation i in phase p was accepted into the channel.
Accepted(i, p) ==
    traffic.fate[i][p] \in {"queued", "queuedAtCancel", "queuedLate"} \/ Applied(i, p)

\* The number of events invocation i has pushed, by its place in the code.
PushesBy(i) ==
    CASE inv[i].pc \in {"idle", "PushSentEvent", "PushResult"} -> 0
      [] inv[i].pc \in {"Call", "PushCompletedResult"} -> 1
      [] OTHER -> IF inv[i].op \in Kinds THEN 2 ELSE 1

\* The events pushed so far, accepted or dropped.
Pushes == {e \in Invocations \X Phases : traffic.fate[e[1]][e[2]] \notin {"none", "owed"}}

\* The step is the push, into a channel with room, of invocation i at pc.
AcceptedPush(i, pc) ==
    /\ inv[i].pc = pc
    /\ inv'[i].pc # pc
    /\ Len(resultChan) < ResultChanCap

\* C12: an invocation with a known kind makes one client call, pushes one
\* Sent event before it and one Completed event after it, both with its kind,
\* the Completed with success exactly when the call returned no error and
\* status 200; it does so also when the context is cancelled during the call.
C12_OneSentOneCompleted ==
    /\ [](\A i \in Invocations :
             inv[i].op \in Kinds =>
               LET sentPushed == traffic.fate[i]["Sent"] \notin {"none", "owed"}
                   completedPushed == traffic.fate[i]["Completed"] \notin {"none", "owed"}
               IN CASE inv[i].pc = "PushSentEvent" ->
                         ~sentPushed /\ ~completedPushed /\ traffic.calls[i] = 0
                    [] inv[i].pc = "Call" ->
                         sentPushed /\ ~completedPushed /\ traffic.calls[i] = 0
                    [] inv[i].pc = "PushCompletedResult" ->
                         sentPushed /\ ~completedPushed /\ traffic.calls[i] = 1
                    [] OTHER ->
                         sentPushed /\ completedPushed /\ traffic.calls[i] = 1)
    /\ [](/\ traffic.sends = Cardinality(Pushes)
          /\ \A i \in Invocations :
                PushesBy(i) = Cardinality({p \in Phases : <<i, p>> \in Pushes}))
    /\ [][\A i \in Invocations :
             /\ AcceptedPush(i, "PushSentEvent") =>
                   LET r == resultChan'[Len(resultChan')]
                   IN r.Operation = inv[i].op /\ r.IsSent
             /\ AcceptedPush(i, "PushCompletedResult") =>
                   LET r == resultChan'[Len(resultChan')]
                   IN /\ r.Operation = inv[i].op
                      /\ ~r.IsSent
                      /\ r.Success = (~inv[i].err /\ inv[i].status = 200)]_vars

\* An invocation was inside its client call when the context was cancelled;
\* the call returned with status 200 and the Completed event was accepted.
C12_Witness ==
    /\ ctxDone
    /\ \E i \in Invocations :
          /\ inv[i].pc = "done"
          /\ traffic.calls[i] = 1
          /\ traffic.fate[i]["Completed"] = "queuedLate"
          /\ Len(resultChan) > 0
          /\ resultChan[Len(resultChan)].Success

\* The step is processResult applying the Result the consumer holds.
ApplyStep == consumer.pc = "processResult" /\ consumer'.pc # "processResult"

\* The consumer has entered Record on kind k and not yet counted the sample.
Entering(k) == rec[Consumer].pc = "AddTotalCount" /\ rec[Consumer].op = k

\* C13: applying an event of kind k changes the state of kind k only: a Sent
\* event adds one to sent[k]; a successful Completed adds one to ops[k] and
\* one sample (its latency and priority) to the histogram of k; a failed
\* Completed adds one to errors[k] and leaves every histogram as it is.
C13_EventChangesItsKind ==
    /\ [](\A k \in Kinds :
             stats[k].totalCount + (IF Entering(k) THEN 1 ELSE 0) = ops[k])
    /\ [][/\ ApplyStep /\ consumer.result.Operation \in Kinds =>
               LET r == consumer.result
                   k == r.Operation
               IN /\ stats' = stats
                  /\ IF r.IsSent
                     THEN /\ sent' = [sent EXCEPT ![k] = @ + 1]
                          /\ UNCHANGED <<ops, errors, rec>>
                     ELSE IF r.Success
                     THEN /\ ops' = [ops EXCEPT ![k] = @ + 1]
                          /\ UNCHANGED <<sent, errors>>
                          /\ rec'[Consumer].pc = "AddTotalCount"
                          /\ rec'[Consumer].op = k
                          /\ rec'[Consumer].latency = r.Latency
                          /\ rec'[Consumer].priority = r.Priority
                     ELSE /\ errors' = [errors EXCEPT ![k] = @ + 1]
                          /\ UNCHANGED <<sent, ops, rec>>
          /\ consumer.pc = "Record" =>
               /\ UNCHANGED <<sent, ops, errors>>
               /\ \A k \in Kinds \ {rec[Consumer].op} : stats'[k] = stats[k]]_vars

\* A success and a failure of one kind were applied: one sample is recorded.
C13_Witness ==
    /\ consumer.pc \in {"select", "drain", "stopped"}
    /\ sent["sensor-data"] = 2
    /\ ops["sensor-data"] = 1
    /\ errors["sensor-data"] = 1
    /\ stats["sensor-data"].totalCount = 1
    /\ SumOver(returned["sensor-data"], RecordInputs) = 1

\* C11: for every invocation whose Sent and Completed events were both
\* accepted into the channel, the consumer has applied the Sent event by the
\* time it holds or has applied the Completed event.
C11_SentAppliedFirst ==
    \A i \in Invocations :
        /\ Accepted(i, "Sent")
        /\ \/ Applied(i, "Completed")
           \/ traffic.current = i /\ ~consumer.result.IsSent
        => Applied(i, "Sent")

\* Two invocations ran to their end and all four events were applied.
C11_Witness ==
    /\ \A i \in {1, 2} : Applied(i, "Sent") /\ Applied(i, "Completed")
    /\ sent["sensor-data"] = 2
    /\ ops["sensor-data"] + errors["sensor-data"] = 2

\* The invocations of kind k whose event in phase p the consumer has applied.
AppliedOf(k, p) == {i \in Invocations : inv[i].op = k /\ Applied(i, p)}

\* C14: no accepted event is applied twice: every counter is the number of
\* events applied to it; and when the consumer goroutine has stopped, every
\* event that was in the channel when the context was cancelled is applied.
C14_AppliedOnceAndFlushed ==
    /\ \A i \in Invocations, p \in Phases : traffic.fate[i][p] # "twice"
    /\ \A k \in Kinds :
          /\ sent[k] = Cardinality(AppliedOf(k, "Sent"))
          /\ ops[k] + errors[k] = Cardinality(AppliedOf(k, "Completed"))
    /\ consumer.pc = "stopped" =>
          \A i \in Invocations, p \in Phases : traffic.fate[i][p] # "queuedAtCancel"

\* Two events were in the channel when the context was cancelled: in its
\* drain loop the consumer has applied the first and holds the second.
C14_Witness ==
    /\ consumer.pc = "processResult"
    /\ consumer.loop = "drain"
    /\ traffic.receives = 2
    /\ traffic.fate[1]["Sent"] = "applied"
    /\ traffic.fate[1]["Completed"] = "queuedAtCancel"
    /\ traffic.current = 1
    /\ sent["sensor-data"] = 1

\* The state PrintFinalReport reads in main: the context is cancelled, the
\* consumer goroutine has drained the channel and stopped, and every
\* invocation has returned (within the grace wait).
FinalReportState ==
    /\ ctxDone
    /\ consumer.pc = "stopped"
    /\ \A i \in Invocations : inv[i].pc \in {"idle", "done"}

\* C15: when the final report reads the totals, the Completed event of every
\* invocation that was inside its call when the context was cancelled has
\* been applied.
C15_LateCompletedApplied ==
    FinalReportState =>
        \A i \in Invocations : traffic.fate[i]["Completed"] # "queuedLate"

(***************************************************************************)
(* Properties of LatencyStats, checked under SpecHist.                     *)
(***************************************************************************)
BucketIds == 0..(NumBuckets - 1)

SumBuckets(b) ==
    b[0] + b[1] + b[2] + b[3] + b[4] + b[5] + b[6] + b[7] + b[8] + b[9] + b[10] + b[11] + b[12]

\* The steps of Record in program order.
RecordPcs ==
    << "AddTotalCount", "AddTotalTime", "LoadMax", "CasMax", "LoadMin", "CasMin",
       "AddBucket", "AddHighPriorityTotalCount", "AddHighPriorityTotalTime",
       "LoadHighPriorityMax", "CasHighPriorityMax", "LoadHighPriorityMin",
       "CasHighPriorityMin", "AddHighPriorityBucket", "Return" >>

PcIndexOf == [pc \in {RecordPcs[i] : i \in 1..Len(RecordPcs)} |->
                 CHOOSE i \in 1..Len(RecordPcs) : RecordPcs[i] = pc]

PcIndex(pc) == PcIndexOf[pc]

\* Caller c is inside Record on kind op and has executed the step named pc.
Past(c, op, pc) ==
    /\ rec[c].pc # "idle"
    /\ rec[c].op = op
    /\ PcIndex(rec[c].pc) > PcIndex(pc)

\* No Record call on kind op is in progress.
Quiescent(op) == \A c \in Callers : rec[c].pc = "idle" \/ rec[c].op # op

HighPriorityInputs == {in \in RecordInputs : in[2] >= HighPriorityThreshold}

Max(S) == CHOOSE x \in S : \A y \in S : y <= x
Min(S) == CHOOSE x \in S : \A y \in S : x <= y

\* The latencies of the returned calls on kind op with arguments in S.
ReturnedLatencies(op, S) == {in[1] : in \in {x \in S : returned[op][x] > 0}}

\* C4: once every Record call has returned, the 13 buckets sum to totalCount,
\* the 13 high-priority buckets sum to highPriorityTotalCount, which is at
\* most totalCount and is the number of calls made with priority >= 3.
C4_QuiescentSums ==
    \A op \in Kinds :
        Quiescent(op) =>
            /\ SumBuckets(stats[op].buckets) = stats[op].totalCount
            /\ SumBuckets(stats[op].highPriorityBuckets) = stats[op].highPriorityTotalCount
            /\ stats[op].highPriorityTotalCount <= stats[op].totalCount
            /\ stats[op].totalCount = ReturnedCount(op, RecordInputs)
            /\ stats[op].highPriorityTotalCount = ReturnedCount(op, HighPriorityInputs)

\* Two calls have returned, one of them with high priority.
C4_Witness ==
    /\ Quiescent(HistOp)
    /\ ReturnedCount(HistOp, RecordInputs) = 2
    /\ ReturnedCount(HistOp, HighPriorityInputs) = 1
    /\ stats[HistOp].highPriorityTotalCount = 1

\* C5 as stated: in every state, also while a Record call is in progress,
\* the buckets sum to totalCount and highPriorityTotalCount <= totalCount.
C5_Original ==
    \A op \in Kinds :
        /\ SumBuckets(stats[op].buckets) = stats[op].totalCount
        /\ stats[op].totalCount >= stats[op].highPriorityTotalCount

\* The callers inside Record on kind op between the steps named after and upto.
Between(op, after, upto) ==
    {c \in Callers : Past(c, op, after) /\ ~Past(c, op, upto)}

\* C5 amended: in every state the buckets sum to totalCount less the number of
\* Record calls that have incremented totalCount and not yet their bucket, so
\* the sum never exceeds totalCount; highPriorityTotalCount <= totalCount.
C5_SumLagsTotal ==
    \A op \in Kinds :
        /\ SumBuckets(stats[op].buckets) + Cardinality(Between(op, "AddTotalCount", "AddBucket"))
              = stats[op].totalCount
        /\ SumBuckets(stats[op].buckets) <= stats[op].totalCount
        /\ stats[op].totalCount >= stats[op].highPriorityTotalCount

\* A Record call has incremented totalCount and not yet its bucket.
C5_Witness ==
    /\ stats[HistOp].totalCount = 2
    /\ SumBuckets(stats[HistOp].buckets) = 1
    /\ \E c \in Recorders : rec[c].pc = "AddBucket"

\* The least i with boundary[i] >= latency (0-based), or the overflow index.
SmallestBoundary(latency) ==
    LET ok == {i \in 1..Len(latencyBuckets) : latencyBuckets[i] * UsPerMs >= latency}
    IN IF ok = {} THEN Len(latencyBuckets) ELSE Min(ok) - 1

\* SmallestBoundary of every latency of the model.
ExpectedBucket == [latency \in Latencies |-> SmallestBoundary(latency)]

\* The calls on kind op with arguments in S and expected bucket i that have
\* executed the step pc.
CallsPast(op, S, pc, i) ==
    ReturnedCount(op, {in \in S : ExpectedBucket[in[1]] = i})
    + Cardinality({c \in Callers : /\ Past(c, op, pc)
                                   /\ <<rec[c].latency, rec[c].priority>> \in S
                                   /\ ExpectedBucket[rec[c].latency] = i})

\* The buckets some latency of the model is expected in.
ExpectedBuckets == {ExpectedBucket[latency] : latency \in Latencies}

\* No Record call was ever made on kind op.
NeverRecorded(op) ==
    /\ Quiescent(op)
    /\ \A in \in RecordInputs : returned[op][in] = 0

\* C6: every bucket counts the calls whose latency has it as the least
\* boundary >= the latency (the overflow bucket those above 5000 ms), and
\* every high-priority bucket the same among the calls with priority >= 3;
\* 10 ms falls in the <=10 bucket, just above 10 ms in the <=20 bucket.
C6_BucketOfLatency ==
    /\ \A op \in Kinds :
          IF NeverRecorded(op)
          THEN /\ stats[op].buckets = ZeroBuckets
               /\ stats[op].highPriorityBuckets = ZeroBuckets
          ELSE /\ \A i \in BucketIds \ ExpectedBuckets :
                    /\ stats[op].buckets[i] = 0
                    /\ stats[op].highPriorityBuckets[i] = 0
               /\ \A i \in ExpectedBuckets :
                    /\ stats[op].buckets[i] = CallsPast(op, RecordInputs, "AddBucket", i)
                    /\ stats[op].highPriorityBuckets[i]
                          = CallsPast(op, HighPriorityInputs, "AddHighPriorityBucket", i)
    /\ ExpectedBucket[10000] = 3
    /\ ExpectedBucket[10001] = 4
    /\ ExpectedBucket[6000000] = 12

\* A high-priority 10 ms sample and a sample just above 10 ms are recorded.
C6_Witness ==
    /\ Quiescent(HistOp)
    /\ returned[HistOp][<<10000, 3>>] = 1
    /\ returned[HistOp][<<10001, 1>>] = 1
    /\ stats[HistOp].buckets[3] = 1
    /\ stats[HistOp].buckets[4] = 1
    /\ stats[HistOp].highPriorityBuckets[3] = 1

\* C7: once every Record call has returned, maxLatency and minLatency are the
\* largest and the smallest latency recorded, and highPriorityMaxLatency and
\* highPriorityMinLatency those of the calls with priority >= 3.
C7_MinMax ==
    \A op \in Kinds :
        Quiescent(op) =>
            /\ ReturnedLatencies(op, RecordInputs) # {} =>
                  /\ stats[op].maxLatency = Max(ReturnedLatencies(op, RecordInputs))
                  /\ stats[op].minLatency = Min(ReturnedLatencies(op, RecordInputs))
            /\ ReturnedLatencies(op, HighPriorityInputs) # {} =>
                  /\ stats[op].highPriorityMaxLatency
                        = Max(ReturnedLatencies(op, HighPriorityInputs))
                  /\ stats[op].highPriorityMinLatency
                        = Min(ReturnedLatencies(op, HighPriorityInputs))

\* Two high-priority calls with different latencies have returned.
C7_Witness ==
    /\ Quiescent(HistOp)
    /\ returned[HistOp][<<10000, 3>>] = 1
    /\ returned[HistOp][<<10001, 3>>] = 1
    /\ stats[HistOp].maxLatency = 10001
    /\ stats[HistOp].highPriorityMinLatency = 10000

(***************************************************************************)
(* Properties of the fixed-rate mode, checked under SpecQPS.               *)
(***************************************************************************)
\* min(2 * QPS, 10000)
MaxInFlight == IF 2 * config.QPS < 10000 THEN 2 * config.QPS ELSE 10000

\* The invocations runQPSMode has launched.
Launched == {i \in Invocations : inv[i].pc # "idle"}

\* The ticks runQPSMode has received and dealt with.
TicksHandled ==
    ticker.n - (IF ticker.ready THEN 1 ELSE 0) - (IF qps.pc = "acquire" THEN 1 ELSE 0)

\* C8: the invocations launched and not yet finished never number more than
\* maxInFlight = min(2 * QPS, 10000).
C8_OutstandingBounded ==
    /\ Cardinality(Outstanding) <= MaxInFlight
    /\ qps.pc \in {"select", "acquire"} => qps.maxConcurrentRequests = MaxInFlight

\* With QPS 1 two invocations are outstanding when the next tick is dealt with.
C8_Witness ==
    /\ config.QPS = 1
    /\ Cardinality(Outstanding) = 2
    /\ qps.pc = "acquire"

\* The step is runQPSMode's non-blocking acquire for the tick it received.
AcquireStep == qps.pc = "acquire" /\ qps'.pc # "acquire"

\* C9: a tick launches exactly one invocation when fewer than maxInFlight are
\* outstanding; otherwise it is dropped: no invocation, nothing pushed, the
\* semaphore as it was, and nothing kept of the tick to launch later.
C9_TickLaunchesOrDrops ==
    [][AcquireStep =>
          IF Cardinality(Outstanding) < MaxInFlight
          THEN /\ \E i \in Invocations \ Launched :
                     /\ Launched' = Launched \cup {i}
                     /\ Outstanding' = Outstanding \cup {i}
                     /\ inv'[i].op = qps.operation
                     /\ \A j \in Invocations \ {i} : inv'[j] = inv[j]
               /\ semaphore' = semaphore + 1
               /\ shed'.dropped = shed.dropped
          ELSE /\ inv' = inv
               /\ resultChan' = resultChan
               /\ traffic' = traffic
               /\ semaphore' = semaphore
               /\ ticker' = ticker
               /\ qps' = [qps EXCEPT !.pc = "select", !.operation = "", !.rand = 0]
               /\ Cardinality(Launched') + shed'.dropped = TicksHandled']_vars

\* Two ticks launched an invocation each and a third was dropped with the
\* semaphore full.
C9_Witness ==
    /\ shed.dropped = 1
    /\ Cardinality(Launched) = 2
    /\ semaphore = 2

C16_StoppedIsTerminal ==
    caller.stop = "returned" => ~ctl.running /\ conc.pc # "entry"

\* C18: Stop on a running controller returns in the end, whether or not the
\* context is cancelled: while a call of Stop waits in rc.wg.Wait(), some
\* goroutine of the controller can take a step (as long as the model has an
\* invocation left for a worker loop to make).
C18_StopNotStuck ==
    (caller.stop = "wait" /\ \E i \in Invocations : inv[i].pc = "idle")
        => ENABLED StopProgress

(***************************************************************************)
(* Properties of the cancellation, checked under SpecQPS.                  *)
(***************************************************************************)
\* C17: once the cancellation has fired no new invocation starts, even when
\* a tick is ready at the same time: a tick that runQPSMode takes with the
\* context already cancelled launches no invocation.
C17_NoLaunchAfterCancel ==
    [][(qps.pc = "acquire" /\ shed.late) => Launched' = Launched]_vars

(***************************************************************************)
(* Properties of main's run in the fixed-concurrency mode, checked under   *)
(* SpecConc.                                                               *)
(***************************************************************************)
\* runConcurrencyMode has started its worker loops.
PoolStarted == conc.pc \in {"wait", "exit"} /\ config.Concurrency > 0

\* The worker loops that have been started.
StartedLoops == {w \in Workers : conc.workers[w].pc # "none"}

\* C19: in the concurrency mode exactly Concurrency worker loops are started,
\* once: the loops started are the loops 1..Concurrency from the moment the
\* mode has started them and none before; at most Concurrency invocations
\* are outstanding in every state; and no step after that start creates a
\* worker loop.
C19_FixedWorkerPool ==
    /\ [](/\ StartedLoops = (IF PoolStarted THEN 1..config.Concurrency ELSE {})
          /\ conc.loops = Cardinality(StartedLoops)
          /\ Cardinality(Running) <= Cardinality(StartedLoops))
    /\ [][PoolStarted => /\ conc'.loops = conc.loops
                         /\ {w \in Workers : conc'.workers[w].pc # "none"} = StartedLoops]_vars

\* The one worker loop of a run with Concurrency 1 is inside ExecuteOperation
\* while a second work item waits in workChan.
C19_Witness ==
    /\ config.Concurrency = 1
    /\ conc.loops = 1
    /\ Cardinality(Running) = 1
    /\ Len(conc.workChan) = 1

\* The configuration is one the validation must refuse for its mode, its QPS
\* or its Concurrency.
InvalidTraffic ==
    \/ config.Mode \notin {"qps", "concurrency"}
    \/ config.Mode = "qps" /\ config.QPS <= 0
    \/ config.Mode = "concurrency" /\ config.Concurrency <= 0

\* C20: a configuration whose mode is neither "qps" nor "concurrency", whose
\* QPS is not positive in the qps mode or whose Concurrency is not positive
\* in the concurrency mode is refused by Validate, and the run aborts before
\* any invocation: main goes from the validation to its fatal exit, the
\* controller is never started, no invocation begins and nothing is pushed.
C20_InvalidConfigAborts ==
    InvalidTraffic =>
        /\ caller.main \in {"Validate", "fatal"}
        /\ Validate(config) \in {"mode", "qps", "concurrency"}
        /\ ~ctl.running /\ qps.pc = "none" /\ conc.pc = "none"
        /\ \A i \in Invocations : inv[i].pc = "idle"
        /\ traffic.sends = 0 /\ resultChan = <<>>

\* main has aborted on a configuration in the concurrency mode whose
\* Concurrency is not positive.
C20_Witness ==
    /\ caller.main = "fatal"
    /\ config.Mode = "concurrency"
    /\ config.Concurrency <= 0

(***************************************************************************)
(* Properties of the choice of the operation kind, checked under SpecPick  *)
(* and SpecRatio.                                                          *)
(***************************************************************************)
RECURSIVE Cumulative(_, _)
\* The sum of the first k ratios.
Cumulative(ratios, k) == IF k = 0 THEN 0 ELSE ratios[k] + Cumulative(ratios, k - 1)

\* The first kind, in the order of KindOrder, whose cumulative ratio exceeds
\* r * S for the draw r = n / RandDen and the sum S of the ratios.
FirstExceeding(ratios, n) ==
    LET above == {k \in 1..4 : Cumulative(ratios, k) * RandDen > n * Cumulative(ratios, 4)}
    IN KindOrder[CHOOSE k \in above : \A j \in above : k <= j]

\* The ratio of a kind.
RatioOf(ratios, kind) == ratios[CHOOSE k \in 1..4 : KindOrder[k] = kind]

C29_DrawFollowsNewRatios ==
    [][(config' = config /\ qps' # qps)
          => /\ qps'.operation = FirstExceeding(config.ratios, qps'.rand)
             /\ RatioOf(config.ratios, qps'.operation) > 0]_vars

(***************************************************************************)
(* Properties of the Reporter, checked under SpecSnap and SpecGetStats.    *)
(***************************************************************************)
\* C22: taking a snapshot does not change the aggregator: a step of
\* GetStats, GetHighPriorityStats, PrintRealtime (with the GetCurrentTotals
\* call in it) or PrintFinalReport, their returns and the clock leave every
\* sent, completed and error counter, every histogram field and the event
\* queue as they are.
C22_SnapshotKeepsState ==
    [][snap' # snap => UNCHANGED <<stats, sent, ops, errors, resultChan>>]_vars

\* PrintRealtime has run with an event in the queue, after an invocation was
\* counted as sent and completed and recorded in its histogram.
C22_Witness ==
    /\ snap.pc = "PrintRealtime"
    /\ SumKinds(snap.lastSent) > 0
    /\ SumKinds(snap.lastOps) > 0
    /\ resultChan # <<>>
    /\ stats["sensor-data"].totalCount > 0

\* What a snapshot of an empty histogram is: max, min and average 0 and
\* 13 buckets that hold 0.
ZeroStats(out) ==
    /\ out.min = Num(0)
    /\ out.max = Num(0)
    /\ out.avg = Num(0)
    /\ Cardinality(DOMAIN out.buckets) = 13
    /\ \A i \in DOMAIN out.buckets : out.buckets[i] = 0

\* C23: a call of GetStats that finds the count 0 returns average 0, max 0,
\* min 0 and 13 zero buckets: the initial value of the minimum is not shown
\* and nothing is divided; a call of GetHighPriorityStats that finds the
\* high-priority count 0 returns the same, and the count 0.
C23_EmptyStatsAreZero ==
    [][/\ (/\ snap.pc = "idle" /\ snap'.pc = "GetStats"
           /\ stats[snap'.op].totalCount = 0)
          => ZeroStats(snap'.out)
       /\ (/\ snap.pc = "idle" /\ snap'.pc = "GetHighPriorityStats"
           /\ stats[snap'.op].highPriorityTotalCount = 0)
          => ZeroStats(snap'.out) /\ snap'.out.count = 0]_vars

\* GetHighPriorityStats has returned zeros for a histogram whose total
\* count is positive and whose high-priority count is 0, the high-priority
\* minimum being at its initial value.
C23_Witness ==
    /\ snap.pc = "GetHighPriorityStats"
    /\ ZeroStats(snap.out)
    /\ snap.out.count = 0
    /\ stats[HistOp].totalCount > 0
    /\ stats[HistOp].highPriorityTotalCount = 0
    /\ stats[HistOp].highPriorityMinLatency = MaxInt64

\* The value is a number, not the NaN or the infinity of a division by 0.
Finite(x) == x[1] = "num"

\* C24: PrintRealtime bears a zero interval: when no time has passed since
\* the last snapshot, or since the start, the rates it computes are numbers:
\* nothing is divided by zero.
C24_RatesAreFinite ==
    snap.pc = "PrintRealtime"
        => /\ Finite(snap.out.instantSendQPS)
           /\ Finite(snap.out.instantDoneQPS)
           /\ Finite(snap.out.avgSendQPS)
           /\ Finite(snap.out.avgDoneQPS)

\* Every event pushed so far has been applied, none was dropped, and no
\* invocation is between its two events.
AllConsumed ==
    /\ resultChan = <<>>
    /\ consumer.result = NoResult
    /\ \A i \in Invocations :
         /\ \A p \in Phases : traffic.fate[i][p] \in {"none", "applied"}
         /\ inv[i].op \in Kinds => traffic.fate[i]["Sent"] = traffic.fate[i]["Completed"]

\* C25: while no remote call has succeeded, every completed counter is 0 and
\* every histogram is empty; and once every event has been consumed with no
\* drop, the error counter of every kind equals its sent counter.
C25_AllFailuresCounted ==
    ~traffic.succeeded =>
        /\ \A k \in Kinds :
             /\ ops[k] = 0
             /\ stats[k].totalCount = 0
             /\ stats[k].buckets = ZeroBuckets
        /\ AllConsumed => \A k \in Kinds : errors[k] = sent[k]

\* Two calls failed and their four events were consumed.
C25_Witness ==
    /\ ~traffic.succeeded
    /\ AllConsumed
    /\ \A i \in {1, 2} : inv[i].op = "sensor-data" /\ traffic.calls[i] = 1
                         /\ Applied(i, "Completed")
    /\ errors["sensor-data"] = 2
    /\ sent["sensor-data"] = 2

\* C26: while a call of Stop is in progress and a worker is inside a remote
\* call, a call of IsRunning can take rc.mu and return.
C26_IsRunningNotBlocked ==
    caller.stop = "wait" /\ (\E i \in Invocations : inv[i].pc = "Call") => ENABLED IsRunning

(***************************************************************************)
(* Properties of Start, checked under SpecMode.                            *)
(***************************************************************************)
\* The step is a call of Start that finds running false.
StartStep == ~ctl.running /\ ctl'.running

\* C27: Start launches runConcurrencyMode if Mode is "concurrency" and
\* runQPSMode for every other mode string, and the other loop is never
\* started: its state is the one New left.
C27_OneLoopByMode ==
    /\ [](IF config.Mode = "concurrency"
          THEN qps.pc = "none"
          ELSE conc = IdleConc)
    /\ [][StartStep =>
            IF config.Mode = "concurrency"
            THEN conc'.pc = "entry" /\ qps' = qps
            ELSE qps'.pc = "entry" /\ conc' = conc]_vars

\* A controller whose mode is neither string runs the fixed-rate loop and has
\* launched an invocation.
C27_Witness ==
    /\ config.Mode = "burst"
    /\ qps.pc = "select"
    /\ Outstanding # {}
    /\ conc = IdleConc

\* The step is a call of Start that finds running set.
StartRunningStep == ctl.running /\ caller'.again # caller.again

\* C30: a call of Start on a running controller changes nothing of the
\* controller, its loops, the invocations and the collector; and at most one
\* admission loop is counted in the wait group in every state.
C30_StartIdempotent ==
    /\ [](ctl.wg <= 1)
    /\ [][StartRunningStep =>
            UNCHANGED <<ctl, qps, conc, config, semaphore, ticker, shed, inv, histVars,
                        collVars>>]_vars

\* Start was called on a running controller whose loop has launched an
\* invocation, and one loop is counted.
C30_Witness ==
    /\ caller.again = 1
    /\ ctl.running
    /\ ctl.wg = 1
    /\ Outstanding \cup Running # {}

\* C28: when the consumer applies the failed result that ExecuteOperation
\* pushed for an unknown operation kind, the total error count grows by one.
C28_UnknownKindCountsAsError ==
    [][ApplyStep /\ ~consumer.result.IsSent /\ consumer.result.Operation \notin Kinds
          => SumKinds(errors') = SumKinds(errors) + 1]_vars

\* C31: no call of Stop closes rc.done when it is closed already: no sequence
\* of Start and Stop calls makes Stop panic.
C31_DoneClosedOnce == caller.stop # "panic"

\* C32: a call of IsRunning returns true only while the goroutine of the
\* mode that Start launched has not returned.
C32_RunningMeansLoopActive ==
    [][caller'.isRunning = "true" /\ caller.isRunning # "true" => ctl.wg > 0]_vars

(***************************************************************************)
(* Properties of the counters and the final report, checked under SpecSnap. *)
(***************************************************************************)
\* The consumer is between events: at its select or drain loop, or stopped.
BetweenEvents == consumer.pc \in {"select", "drain", "stopped"}

\* The histogram of every kind counts no more samples than the completed
\* counter of the kind, and as many when the consumer is between events; the
\* high-priority counts sum to no more than the completed counters.
CountsWithinCompleted ==
    /\ \A k \in Kinds :
         /\ stats[k].totalCount <= ops[k]
         /\ stats[k].highPriorityTotalCount <= stats[k].totalCount
         /\ BetweenEvents => stats[k].totalCount = ops[k]
    /\ SumKinds([k \in Kinds |-> stats[k].highPriorityTotalCount]) <= SumKinds(ops)

\* C33: the counts are within the completed counters, and the share of
\* high-priority requests that the final report prints is a number, at most 100.
C33_HighPriorityShareAtMost100 ==
    /\ CountsWithinCompleted
    /\ snap.pc = "PrintDistribution" /\ snap.out.totalHighPriorityCount > 0 =>
         /\ Finite(snap.out.highPriorityShare)
         /\ snap.out.highPriorityShare[2] <= 100

\* The count a call of GetStats or GetHighPriorityStats on kind op loads first.
CountLoaded(pc, op) ==
    IF pc = "GetStats" THEN stats[op].totalCount ELSE stats[op].highPriorityTotalCount

\* C34: a call of GetStats or GetHighPriorityStats that loads a count other
\* than 0 returns a min that is at most the max it returns and is not the
\* initial value of minLatency.
C34_MinAtMostMax ==
    [][/\ snap.pc = "idle"
       /\ snap'.pc \in {"GetStats", "GetHighPriorityStats"}
       /\ CountLoaded(snap'.pc, snap'.op) > 0
       => /\ snap'.out.min[2] <= snap'.out.max[2]
          /\ snap'.out.min # FloatDiv(MaxInt64, UsPerMs)]_vars

\* C35: in the fixed-rate mode the tokens in the semaphore are as many as the
\* invocations launched and not yet finished, so the semaphore is empty when
\* every launched invocation has finished; and the end of an invocation takes
\* one token out.
C35_TokensAreOutstanding ==
    /\ [](semaphore = Cardinality(Outstanding))
    /\ []((\A i \in Launched : inv[i].pc = "done") => semaphore = 0)
    /\ [][\A i \in Invocations :
            inv[i].pc = "Release" /\ inv'[i].pc = "done" => semaphore' = semaphore - 1]_vars

\* Two invocations were launched and overlapped, and both have finished.
C35_Witness ==
    /\ Launched = {1, 2}
    /\ \A i \in Launched : inv[i].pc = "done" /\ inv[i].gated
    /\ shed.overlap
    /\ semaphore = 0

\* C36: in the concurrency mode every invocation of ExecuteOperation that a
\* worker loop has made is of one of the four kinds.
C36_WorkersExecuteKnownKinds ==
    \A i \in Invocations : inv[i].pc # "idle" /\ ~inv[i].gated => inv[i].op \in Kinds

\* The ratios a call of GetOperationType has loaded are those of vector v.
SeenFrom(v) == \A k \in 1..Len(qps.sel.seen) : qps.sel.seen[k] = v[k]

\* C37: the ratios a call of GetOperationType has loaded when it returns are
\* all the ratios rc.config had before the call of UpdateConfig, or all
\* those of its cfg.
C37_ConsistentRatios ==
    qps.sel.pc = 4 => SeenFrom(caller.update.old) \/ SeenFrom(caller.update.cfg)

\* C38: for a configuration that passes Validate, the interval runQPSMode
\* computes for its ticker is positive, and NewTicker does not panic.
C38_IntervalPositive ==
    Validate(config) = "nil" /\ qps.pc \notin {"none", "entry"} =>
        qps.interval > 0 /\ qps.pc # "panic"

=============================================================================
